---------------------------- MODULE Spec2Model ----------------------------
(***************************************************************************)
(* A model of the wasm-blas-ts kernels (src/src/cpp, src/unnamed) and of   *)
(* the mode encoding of their TypeScript wrappers (src/src/*.ts).          *)
(*                                                                         *)
(* Numbers.  A double is modelled in exact arithmetic as a reduced         *)
(* fraction <<num, den>> with den > 0; <<0, 0>> (NaN) stands for every     *)
(* non-finite double (Inf, NaN): it absorbs every operation and differs    *)
(* from zero, as NaN != 0.0 does in C++.                                   *)
(*                                                                         *)
(* Memory.  A buffer is a function from 0..len-1 to numbers.  A kernel is  *)
(* an operator from its arguments to the buffer it writes; its loops are   *)
(* the source's loops.  An index that a loop advances by a constant on     *)
(* every iteration (ix += incx) is written in closed form (kx + i*incx);   *)
(* an index advanced conditionally is carried in the loop state.  Where    *)
(* the source has a unit-stride copy of a strided loop that differs only   *)
(* in writing x[i] for x[kx + i*incx] with kx = 0 and incx = 1, the two    *)
(* copies are one definition here.                                         *)
(*                                                                         *)
(* State.  The program is a caller that, when idle, makes one kernel (or   *)
(* wrapper) call with arguments drawn from bounded sets; `call` names the  *)
(* routine, `inp` holds the arguments as passed, `out` what the call left, *)
(* `heap` the value a load outside every buffer of the call returns.       *)
(***************************************************************************)
EXTENDS Integers, Sequences, FiniteSets, TLC

VARIABLES call, inp, out, heap

vars == <<call, inp, out, heap>>

---------------------------------------------------------------------------
(* Bounds of the model.                                                    *)

\* largest matrix order / vector length drawn
MaxN == 3
\* number of generated data sets per shape
NumSeeds == 2
\* largest |increment| drawn
MaxInc == 2
\* largest band width (number of off-diagonals) drawn
MaxK == 2

\* the longest vector of a Level 1 call: the unrolled loops of the
\* unit-stride branches run, with a remainder
MaxVecN == 5

---------------------------------------------------------------------------
(* Exact arithmetic on doubles.                                            *)

Abs(v) == IF v < 0 THEN -v ELSE v

Max(a, b) == IF a >= b THEN a ELSE b

Min(a, b) == IF a <= b THEN a ELSE b

RECURSIVE Gcd(_, _)
Gcd(a, b) == IF b = 0 THEN a ELSE Gcd(b, a % b)

NaN == <<0, 0>>

IsNaN(v) == v[2] = 0

Rat(n, d) ==
  IF d = 0 THEN NaN
  ELSE LET g == Gcd(Abs(n), Abs(d))
           s == IF d < 0 THEN -1 ELSE 1
       IN  <<(s * n) \div g, (s * d) \div g>>

R(k) == <<k, 1>>

zero == R(0)

one == R(1)

Plus(a, b) ==
  IF IsNaN(a) \/ IsNaN(b) THEN NaN
  ELSE Rat(a[1] * b[2] + b[1] * a[2], a[2] * b[2])

Minus(a, b) ==
  IF IsNaN(a) \/ IsNaN(b) THEN NaN
  ELSE Rat(a[1] * b[2] - b[1] * a[2], a[2] * b[2])

Times(a, b) ==
  IF IsNaN(a) \/ IsNaN(b) THEN NaN
  ELSE Rat(a[1] * b[1], a[2] * b[2])

\* x / 0 is non-finite
Over(a, b) ==
  IF IsNaN(a) \/ IsNaN(b) \/ b[1] = 0 THEN NaN
  ELSE Rat(a[1] * b[2], a[2] * b[1])

---------------------------------------------------------------------------
(* Loops and memory.                                                       *)

\* for (i = lo; i <= hi; i++) s = Body(s, i)
ForUp(lo, hi, s0, Body(_, _)) ==
  LET f[i \in (lo - 1)..hi] ==
        IF i < lo THEN s0
        ELSE LET p == f[i - 1] IN IF p = p THEN Body(p, i) ELSE s0
  IN  IF hi < lo \/ s0 /= s0 THEN s0 ELSE f[hi]

\* for (i = hi; i >= lo; i--) s = Body(s, i)
ForDown(hi, lo, s0, Body(_, _)) ==
  LET f[i \in lo..(hi + 1)] ==
        IF i > hi THEN s0
        ELSE LET p == f[i + 1] IN IF p = p THEN Body(p, i) ELSE s0
  IN  IF hi < lo \/ s0 /= s0 THEN s0 ELSE f[lo]

\* A load buf[i].  An index outside the buffer reads whatever the WASM heap
\* holds there.
Rd(buf, i) == IF i \in DOMAIN buf THEN buf[i] ELSE heap

\* A store buf[i] = v.  A store outside the buffer lands in other memory.
Wr(buf, i, v) == IF i \in DOMAIN buf THEN [buf EXCEPT ![i] = v] ELSE buf

---------------------------------------------------------------------------
(* Mode arguments.                                                         *)

\* character codes of the mode letters ('N', 'n', 'T', 'U', 'u', 'L', 'R')
CharN == 78
Charn == 110
CharT == 84
CharU == 85
Charu == 117
CharL == 76
Charl == 108
CharR == 82

---------------------------------------------------------------------------
(* Caller-side data.                                                       *)

\* increments a caller passes
Incs == ((-MaxInc)..MaxInc) \ {0}

\* the scalars a caller passes for alpha and beta
Scalars == {zero, one, R(2)}

Seeds == 1..NumSeeds

\* small integer data, zeros included, determined by (seed, position)
Gen(seed, p) ==
  R(((((seed * 5 + 3) * (p + 1) * (p + 4)) \div 2 + p * seed) % 7) - 3)

\* a buffer of len doubles
GenBuf(seed, off, len) == [p \in 0..(len - 1) |-> Gen(seed, p + off)]

\* storage a vector of n logical elements with increment inc occupies
VecLen(n, inc) == IF n = 0 THEN 0 ELSE 1 + (n - 1) * Abs(inc)

\* offset of logical element i of a vector of n elements with increment inc
Pos(i, n, inc) == IF inc > 0 THEN i * inc ELSE (n - 1 - i) * (-inc)

\* sum of F(i) for i in lo..hi
Sum(lo, hi, F(_)) == ForUp(lo, hi, zero, LAMBDA s, i : Plus(s, F(i)))

---------------------------------------------------------------------------
(* dgemv: y := alpha*op(A)*x + beta*y.                                     *)

\* src/src/cpp/dgemv.cpp: the scalars alone
GemvQuick_scalars(m, n, alpha, beta) == alpha = zero /\ beta = one

\* src/src/cpp/dgemv.cpp: if (m == 0 || n == 0 || (alpha == zero &&
\* beta == one)) return
GemvQuick(m, n, alpha, beta) ==
  m = 0 \/ n = 0 \/ (alpha = zero /\ beta = one)

\* src/src/cpp/dgemv.cpp: int kx = 0; if (incx < 0) kx = (-n + 1) * incx
GemvKx(n, incx) == IF incx < 0 THEN (-n + 1) * incx ELSE 0

\* src/src/cpp/dgemv.cpp: int ky = 0; if (incy < 0) ky = (-m + 1) * incy
GemvKy(m, incy) == IF incy < 0 THEN (-m + 1) * incy ELSE 0

\* src/src/cpp/dgemv.cpp, the kernel taking trans as a character
dgemv(trans, m, n, alpha, a, lda, x, incx, beta, y, incy) ==
  LET notran == (trans = CharN \/ trans = Charn)
      kx == GemvKx(n, incx)
      ky == GemvKy(m, incy)
  IN
  IF GemvQuick(m, n, alpha, beta) THEN y
  ELSE IF notran THEN
    LET acc == ForUp(0, n - 1, y, LAMBDA y1, j :
                 LET xj == Rd(x, kx + j * incx) IN
                 IF xj /= zero
                 THEN LET temp == Times(alpha, xj)
                          r == ForUp(0, m - 1, y1, LAMBDA y2, i :
                                 Wr(y2, ky + i * incy,
                                    Plus(Rd(y2, ky + i * incy),
                                         Times(temp, Rd(a, i + j * lda)))))
                      IN  r
                 ELSE y1)
    IN  IF beta /= one
        THEN LET sc == ForUp(0, m - 1, acc, LAMBDA y2, i :
                         Wr(y2, ky + i * incy,
                            IF beta = zero THEN zero
                            ELSE Times(beta, Rd(y2, ky + i * incy))))
             IN  sc
        ELSE acc
  ELSE
    LET res == ForUp(0, n - 1, y, LAMBDA y1, j :
                 LET temp == ForUp(0, m - 1, zero, LAMBDA t, i :
                               Plus(t, Times(Rd(a, i + j * lda),
                                             Rd(x, kx + i * incx))))
                 IN  Wr(y1, ky + j * incy,
                        Plus(Times(alpha, temp),
                             Times(beta, Rd(y1, ky + j * incy)))))
    IN  res

\* y := beta*y, the first step of the reference kernels
ScaleVec(leny, beta, y, ky, incy) ==
  IF beta /= one
  THEN LET sc == ForUp(0, leny - 1, y, LAMBDA y2, i :
                   Wr(y2, ky + i * incy,
                      IF beta = zero THEN zero
                      ELSE Times(beta, Rd(y2, ky + i * incy))))
       IN  sc
  ELSE y

\* src/src/cpp/dtrmv.cpp, the kernel taking trans as an integer
dgemv_int(trans, m, n, alpha, a, lda, x, incx, beta, y, incy) ==
  LET notran == (trans = 0)
      lenx == IF notran THEN n ELSE m
      leny == IF notran THEN m ELSE n
      kx == IF incx < 0 THEN (1 - lenx) * incx ELSE 0
      ky == IF incy < 0 THEN (1 - leny) * incy ELSE 0
  IN
  IF m = 0 \/ n = 0 \/ (alpha = zero /\ beta = one) THEN y
  ELSE
    LET ys == ScaleVec(leny, beta, y, ky, incy) IN
    IF alpha = zero THEN ys
    ELSE IF notran THEN
      LET res == ForUp(0, n - 1, ys, LAMBDA y1, j :
                   LET temp == Times(alpha, Rd(x, kx + j * incx))
                       r == ForUp(0, m - 1, y1, LAMBDA y2, i :
                              Wr(y2, ky + i * incy,
                                 Plus(Rd(y2, ky + i * incy),
                                      Times(temp, Rd(a, i + j * lda)))))
                   IN  r)
      IN  res
    ELSE
      LET res == ForUp(0, n - 1, ys, LAMBDA y1, j :
                   LET temp == ForUp(0, m - 1, zero, LAMBDA t, i :
                                 Plus(t, Times(Rd(a, i + j * lda),
                                               Rd(x, kx + i * incx))))
                   IN  Wr(y1, ky + j * incy,
                          Plus(Rd(y1, ky + j * incy), Times(alpha, temp))))
      IN  res

---------------------------------------------------------------------------
(* dsymv and dsbmv: y := alpha*A*x + beta*y, A symmetric, dense or band.   *)

\* src/src/cpp/dsymv.cpp (uplo is a character)
dsymv(uplo, n, alpha, a, lda, x, incx, beta, y, incy) ==
  LET kx == IF incx < 0 THEN (-n + 1) * incx ELSE 0
      ky == IF incy < 0 THEN (-n + 1) * incy ELSE 0
      upper == (uplo = CharU \/ uplo = Charu)
      X(i) == Rd(x, kx + i * incx)
      IY(i) == ky + i * incy
      \* y[iy] += temp1 * a[i + j*lda]; temp2 += a[i + j*lda] * x[ix]
      Inner(temp1, j, s, i) ==
        [y |-> Wr(s.y, IY(i), Plus(Rd(s.y, IY(i)),
                                   Times(temp1, Rd(a, i + j * lda)))),
         temp2 |-> Plus(s.temp2, Times(Rd(a, i + j * lda), X(i)))]
  IN
  IF n = 0 \/ (alpha = zero /\ beta = one) THEN y
  ELSE
    LET ys == ScaleVec(n, beta, y, ky, incy) IN
    IF alpha = zero THEN ys
    ELSE IF upper THEN
      LET res == ForUp(0, n - 1, ys, LAMBDA y1, j :
                   LET temp1 == Times(alpha, X(j))
                       r == ForUp(0, j - 1, [y |-> y1, temp2 |-> zero],
                                  LAMBDA s, i : Inner(temp1, j, s, i))
                   IN  Wr(r.y, IY(j),
                          Plus(Rd(r.y, IY(j)),
                               Plus(Times(temp1, Rd(a, j + j * lda)),
                                    Times(alpha, r.temp2)))))
      IN  res
    ELSE
      LET res == ForUp(0, n - 1, ys, LAMBDA y1, j :
                   LET temp1 == Times(alpha, X(j))
                       yd == Wr(y1, IY(j),
                                Plus(Rd(y1, IY(j)),
                                     Times(temp1, Rd(a, j + j * lda))))
                       r == ForUp(j + 1, n - 1, [y |-> yd, temp2 |-> zero],
                                  LAMBDA s, i : Inner(temp1, j, s, i))
                   IN  Wr(r.y, IY(j),
                          Plus(Rd(r.y, IY(j)), Times(alpha, r.temp2))))
      IN  res

\* src/src/cpp/dtbmv.cpp (uplo is an integer, 0 = upper)
dsbmv(uplo, n, k, alpha, a, lda, x, incx, beta, y, incy) ==
  LET kx0 == IF incx > 0 THEN 0 ELSE -(n - 1) * incx
      ky0 == IF incy > 0 THEN 0 ELSE -(n - 1) * incy
      kplus1 == k + 1
  IN
  IF n = 0 \/ (alpha = zero /\ beta = one) THEN y
  ELSE
    LET ys == ScaleVec(n, beta, y, ky0, incy) IN
    IF alpha = zero THEN ys
    ELSE IF uplo = 0 THEN
      IF incx = 1 /\ incy = 1 THEN
        LET res == ForUp(0, n - 1, ys, LAMBDA y1, j :
                     LET temp1 == Times(alpha, Rd(x, j))
                         l == kplus1 - 1 - j
                         r == ForUp(Max(0, j - k), j - 1,
                                    [y |-> y1, temp2 |-> zero], LAMBDA s, i :
                                [y |-> Wr(s.y, i,
                                          Plus(Rd(s.y, i),
                                               Times(temp1,
                                                     Rd(a, (l + i) + j * lda)))),
                                 temp2 |-> Plus(s.temp2,
                                                Times(Rd(a, (l + i) + j * lda),
                                                      Rd(x, i)))])
                     IN  Wr(r.y, j,
                            Plus(Rd(r.y, j),
                                 Plus(Times(temp1,
                                            Rd(a, kplus1 - 1 + j * lda)),
                                      Times(alpha, r.temp2)))))
        IN  res
      ELSE
        \* kx and ky advance only once the band has left column 0
        LET res == ForUp(0, n - 1, [y |-> ys, kx |-> kx0, ky |-> ky0],
                     LAMBDA o, j :
                     LET jx == kx0 + j * incx
                         jy == ky0 + j * incy
                         temp1 == Times(alpha, Rd(x, jx))
                         l == kplus1 - 1 - j
                         i0 == Max(0, j - k)
                         r == ForUp(i0, j - 1,
                                    [y |-> o.y, temp2 |-> zero], LAMBDA s, i :
                                LET ix == o.kx + (i - i0) * incx
                                    iy == o.ky + (i - i0) * incy
                                IN
                                [y |-> Wr(s.y, iy,
                                          Plus(Rd(s.y, iy),
                                               Times(temp1,
                                                     Rd(a, (l + i) + j * lda)))),
                                 temp2 |-> Plus(s.temp2,
                                                Times(Rd(a, (l + i) + j * lda),
                                                      Rd(x, ix)))])
                     IN  [y |-> Wr(r.y, jy,
                                   Plus(Rd(r.y, jy),
                                        Plus(Times(temp1,
                                                   Rd(a, kplus1 - 1 + j * lda)),
                                             Times(alpha, r.temp2)))),
                          kx |-> IF j >= k THEN o.kx + incx ELSE o.kx,
                          ky |-> IF j >= k THEN o.ky + incy ELSE o.ky])
        IN  res.y
    ELSE
      LET res == ForUp(0, n - 1, ys, LAMBDA y1, j :
                   LET jx == kx0 + j * incx
                       jy == ky0 + j * incy
                       temp1 == Times(alpha, Rd(x, jx))
                       yd == Wr(y1, jy,
                                Plus(Rd(y1, jy),
                                     Times(temp1, Rd(a, 0 + j * lda))))
                       l == 1 - j
                       r == ForUp(j + 1, Min(n - 1, j + k),
                                  [y |-> yd, temp2 |-> zero], LAMBDA s, i :
                              LET ix == jx + (i - j) * incx
                                  iy == jy + (i - j) * incy
                              IN
                              [y |-> Wr(s.y, iy,
                                        Plus(Rd(s.y, iy),
                                             Times(temp1,
                                                   Rd(a, (l + i) + j * lda)))),
                               temp2 |-> Plus(s.temp2,
                                              Times(Rd(a, (l + i) + j * lda),
                                                    Rd(x, ix)))])
                   IN  Wr(r.y, jy,
                          Plus(Rd(r.y, jy), Times(alpha, r.temp2))))
      IN  res

---------------------------------------------------------------------------
(* dtrmv and dtrsv: x := op(A)*x and x := inv(op(A))*x, A dense.           *)

\* src/src/cpp/dtrmv.cpp (uplo, trans and diag are characters)
dtrmv(uplo, trans, diag, n, a, lda, x, incx) ==
  LET upper == (uplo = CharU \/ uplo = Charu)
      notrans == (trans = CharN \/ trans = Charn)
      nounit == (diag = CharN \/ diag = Charn)
      kx == IF incx < 0 THEN (-n + 1) * incx ELSE 0
      IX(i) == kx + i * incx
      \* x[ix] += temp * a[i + j*lda]
      Axpy(temp, j, x1, i) ==
        Wr(x1, IX(i), Plus(Rd(x1, IX(i)), Times(temp, Rd(a, i + j * lda))))
      \* temp += a[i + j*lda] * x[ix]
      Dot(x1, j, t, i) == Plus(t, Times(Rd(a, i + j * lda), Rd(x1, IX(i))))
      \* if (x[jx] != zero) { temp = x[jx]; <inner loop>; if (nounit) ... }
      Col(x1, j, r) ==
        IF Rd(x1, IX(j)) /= zero
        THEN IF nounit
             THEN Wr(r, IX(j), Times(Rd(x1, IX(j)), Rd(a, j + j * lda)))
             ELSE r
        ELSE x1
      \* temp = x[jx]; if (nounit) temp = temp * a[j + j*lda]
      Temp0(x1, j) ==
        IF nounit THEN Times(Rd(x1, IX(j)), Rd(a, j + j * lda))
        ELSE Rd(x1, IX(j))
  IN
  IF n = 0 THEN x
  ELSE IF notrans THEN
    IF upper THEN
      LET res == ForUp(0, n - 1, x, LAMBDA x1, j :
                   LET temp == Rd(x1, IX(j))
                       r == ForUp(0, j - 1, x1, LAMBDA x2, i :
                              Axpy(temp, j, x2, i))
                   IN  Col(x1, j, r))
      IN  res
    ELSE
      LET res == ForDown(n - 1, 0, x, LAMBDA x1, j :
                   LET temp == Rd(x1, IX(j))
                       r == ForDown(n - 1, j + 1, x1, LAMBDA x2, i :
                              Axpy(temp, j, x2, i))
                   IN  Col(x1, j, r))
      IN  res
  ELSE
    IF upper THEN
      LET res == ForDown(n - 1, 0, x, LAMBDA x1, j :
                   LET temp == ForDown(j - 1, 0, Temp0(x1, j), LAMBDA t, i :
                                 Dot(x1, j, t, i))
                   IN  Wr(x1, IX(j), temp))
      IN  res
    ELSE
      LET res == ForUp(0, n - 1, x, LAMBDA x1, j :
                   LET temp == ForUp(j + 1, n - 1, Temp0(x1, j), LAMBDA t, i :
                                 Dot(x1, j, t, i))
                   IN  Wr(x1, IX(j), temp))
      IN  res

\* src/src/cpp/dswap.cpp (uplo, trans and diag are characters)
dtrsv(uplo, trans, diag, n, a, lda, x, incx) ==
  LET upper == (uplo = CharU \/ uplo = Charu)
      notrans == (trans = CharN \/ trans = Charn)
      nounit == (diag = CharN \/ diag = Charn)
      kx == IF incx < 0 THEN (-n + 1) * incx ELSE 0
      IX(i) == kx + i * incx
      \* if (nounit) x[jx] = x[jx] / a[j + j*lda]
      Div(x1, j) ==
        IF nounit
        THEN Wr(x1, IX(j), Over(Rd(x1, IX(j)), Rd(a, j + j * lda)))
        ELSE x1
      \* x[ix] -= temp * a[i + j*lda]
      Elim(temp, j, x1, i) ==
        Wr(x1, IX(i), Minus(Rd(x1, IX(i)), Times(temp, Rd(a, i + j * lda))))
      \* if (nounit) temp = temp / a[j + j*lda]; x[jx] = temp
      Put(x1, j, temp) ==
        Wr(x1, IX(j), IF nounit THEN Over(temp, Rd(a, j + j * lda)) ELSE temp)
  IN
  IF n = 0 THEN x
  ELSE IF notrans THEN
    IF upper THEN
      LET res == ForDown(n - 1, 0, x, LAMBDA x1, j :
                   IF Rd(x1, IX(j)) /= zero
                   THEN LET xd == Div(x1, j)
                            temp == Rd(xd, IX(j))
                            r == ForDown(j - 1, 0, xd, LAMBDA x2, i :
                                   Elim(temp, j, x2, i))
                        IN  r
                   ELSE x1)
      IN  res
    ELSE
      LET res == ForUp(0, n - 1, x, LAMBDA x1, j :
                   IF Rd(x1, IX(j)) /= zero
                   THEN LET xd == Div(x1, j)
                            temp == Rd(xd, IX(j))
                            r == ForUp(j + 1, n - 1, xd, LAMBDA x2, i :
                                   Elim(temp, j, x2, i))
                        IN  r
                   ELSE x1)
      IN  res
  ELSE
    IF upper THEN
      LET res == ForUp(0, n - 1, x, LAMBDA x1, j :
                   LET temp == ForUp(0, j - 1, Rd(x1, IX(j)), LAMBDA t, i :
                                 Minus(t, Times(Rd(a, i + j * lda),
                                                Rd(x1, IX(i)))))
                   IN  Put(x1, j, temp))
      IN  res
    ELSE IF incx = 1 THEN
      LET res == ForDown(n - 1, 0, x, LAMBDA x1, j :
                   LET temp == ForUp(j + 1, n - 1, Rd(x1, j), LAMBDA t, i :
                                 Minus(t, Times(Rd(a, i + j * lda),
                                                Rd(x1, i))))
                   IN  Put(x1, j, temp))
      IN  res
    ELSE
      \* ix starts at the last element (kx + (n-1)*incx) and steps back
      \* while i steps forward from j + 1
      LET kxe == kx + (n - 1) * incx
          res == ForDown(n - 1, 0, x, LAMBDA x1, j :
                   LET temp == ForUp(j + 1, n - 1, Rd(x1, IX(j)), LAMBDA t, i :
                                 Minus(t, Times(Rd(a, i + j * lda),
                                                Rd(x1, kxe - (i - (j + 1))
                                                             * incx))))
                   IN  Put(x1, j, temp))
      IN  res

---------------------------------------------------------------------------
(* dtbmv and dtbsv: x := op(A)*x and x := inv(op(A))*x, A a band matrix.   *)
(* In the strided branches kx is carried through the outer loop; the unit  *)
(* branches (incx = 1) index x by i and j directly.                        *)

\* src/src/cpp/dtbmv.cpp (uplo, trans, diag are integers: 0 = upper, 'N',
\* non-unit)
dtbmv(uplo, trans, diag, n, k, a, lda, x, incx) ==
  LET nounit == (diag = 0)
      kx0 == IF incx <= 0 THEN -(n - 1) * incx ELSE 0
      kxe == kx0 + (n - 1) * incx
      kplus1 == k + 1
      JX(j) == IF incx = 1 THEN j ELSE kx0 + j * incx
      \* if (nounit) x[jx] *= a[d + j*lda]
      Diag(x1, j, d) ==
        IF nounit
        THEN Wr(x1, JX(j), Times(Rd(x1, JX(j)), Rd(a, d + j * lda)))
        ELSE x1
      \* temp = x[jx]; if (nounit) temp *= a[d + j*lda]
      Temp0(x1, j, d) ==
        IF nounit THEN Times(Rd(x1, JX(j)), Rd(a, d + j * lda))
        ELSE Rd(x1, JX(j))
  IN
  IF n = 0 THEN x
  ELSE IF trans = 0 THEN
    IF uplo = 0 THEN
      LET res == ForUp(0, n - 1, [x |-> x, kx |-> kx0], LAMBDA o, j :
                   LET temp == Rd(o.x, JX(j))
                       l == kplus1 - 1 - j
                       i0 == Max(0, j - k)
                       r == ForUp(i0, j - 1, o.x, LAMBDA x2, i :
                              LET ix == IF incx = 1 THEN i
                                        ELSE o.kx + (i - i0) * incx
                              IN  Wr(x2, ix,
                                     Plus(Rd(x2, ix),
                                          Times(temp,
                                                Rd(a, (l + i) + j * lda)))))
                   IN  [x |-> IF temp /= zero
                              THEN Diag(r, j, kplus1 - 1) ELSE o.x,
                        kx |-> IF j >= k THEN o.kx + incx ELSE o.kx])
      IN  res.x
    ELSE
      LET res == ForDown(n - 1, 0, [x |-> x, kx |-> kxe], LAMBDA o, j :
                   LET temp == Rd(o.x, JX(j))
                       l == 1 - j
                       i1 == Min(n - 1, j + k)
                       r == ForDown(i1, j + 1, o.x, LAMBDA x2, i :
                              LET ix == IF incx = 1 THEN i
                                        ELSE o.kx - (i1 - i) * incx
                              IN  Wr(x2, ix,
                                     Plus(Rd(x2, ix),
                                          Times(temp,
                                                Rd(a, (l + i) + j * lda)))))
                   IN  [x |-> IF temp /= zero THEN Diag(r, j, 0) ELSE o.x,
                        kx |-> IF (n - 1 - j) >= k
                               THEN o.kx - incx ELSE o.kx])
      IN  res.x
  ELSE
    IF uplo = 0 THEN
      LET res == ForDown(n - 1, 0, x, LAMBDA x1, j :
                   LET l == kplus1 - 1 - j
                       temp == ForDown(j - 1, Max(0, j - k),
                                       Temp0(x1, j, kplus1 - 1), LAMBDA t, i :
                                 Plus(t, Times(Rd(a, (l + i) + j * lda),
                                               Rd(x1, JX(i)))))
                   IN  Wr(x1, JX(j), temp))
      IN  res
    ELSE
      LET res == ForUp(0, n - 1, x, LAMBDA x1, j :
                   LET l == 1 - j
                       temp == ForUp(j + 1, Min(n - 1, j + k),
                                     Temp0(x1, j, 0), LAMBDA t, i :
                                 Plus(t, Times(Rd(a, (l + i) + j * lda),
                                               Rd(x1, JX(i)))))
                   IN  Wr(x1, JX(j), temp))
      IN  res

\* src/src/cpp/ddot.cpp (uplo, trans, diag are integers: 0 = upper, 'N',
\* non-unit)
dtbsv(uplo, trans, diag, n, k, a, lda, x, incx) ==
  LET nounit == (diag = 0)
      kx0 == IF incx <= 0 THEN -(n - 1) * incx ELSE 0
      kxe == kx0 + (n - 1) * incx
      kplus1 == k + 1
      JX(j) == IF incx = 1 THEN j ELSE kx0 + j * incx
      \* if (nounit) x[jx] /= a[d + j*lda]
      Div(x1, j, d) ==
        IF nounit
        THEN Wr(x1, JX(j), Over(Rd(x1, JX(j)), Rd(a, d + j * lda)))
        ELSE x1
      \* x[ix] -= temp * a[(l + i) + j*lda]
      Elim(temp, l, j, x1, i) ==
        Wr(x1, JX(i),
           Minus(Rd(x1, JX(i)), Times(temp, Rd(a, (l + i) + j * lda))))
      \* if (nounit) temp /= a[d + j*lda]; x[jx] = temp
      Put(x1, j, d, temp) ==
        Wr(x1, JX(j), IF nounit THEN Over(temp, Rd(a, d + j * lda)) ELSE temp)
  IN
  IF n = 0 THEN x
  ELSE IF trans = 0 THEN
    IF uplo = 0 THEN
      LET res == ForDown(n - 1, 0, x, LAMBDA x1, j :
                   IF Rd(x1, JX(j)) /= zero
                   THEN LET l == kplus1 - 1 - j
                            xd == Div(x1, j, kplus1 - 1)
                            temp == Rd(xd, JX(j))
                            r == ForDown(j - 1, Max(0, j - k), xd,
                                         LAMBDA x2, i : Elim(temp, l, j, x2, i))
                        IN  r
                   ELSE x1)
      IN  res
    ELSE
      LET res == ForUp(0, n - 1, x, LAMBDA x1, j :
                   IF Rd(x1, JX(j)) /= zero
                   THEN LET l == 1 - j
                            xd == Div(x1, j, 0)
                            temp == Rd(xd, JX(j))
                            r == ForUp(j + 1, Min(n - 1, j + k), xd,
                                       LAMBDA x2, i : Elim(temp, l, j, x2, i))
                        IN  r
                   ELSE x1)
      IN  res
  ELSE
    IF uplo = 0 THEN
      LET res == ForUp(0, n - 1, [x |-> x, kx |-> kx0], LAMBDA o, j :
                   LET l == kplus1 - 1 - j
                       i0 == Max(0, j - k)
                       temp == ForUp(i0, j - 1, Rd(o.x, JX(j)), LAMBDA t, i :
                                 LET ix == IF incx = 1 THEN i
                                           ELSE o.kx + (i - i0) * incx
                                 IN  Minus(t, Times(Rd(a, (l + i) + j * lda),
                                                    Rd(o.x, ix))))
                   IN  [x |-> Put(o.x, j, kplus1 - 1, temp),
                        kx |-> IF j >= k THEN o.kx + incx ELSE o.kx])
      IN  res.x
    ELSE
      LET res == ForDown(n - 1, 0, [x |-> x, kx |-> kxe], LAMBDA o, j :
                   LET l == 1 - j
                       i1 == Min(n - 1, j + k)
                       temp == ForDown(i1, j + 1, Rd(o.x, JX(j)), LAMBDA t, i :
                                 LET ix == IF incx = 1 THEN i
                                           ELSE o.kx - (i1 - i) * incx
                                 IN  Minus(t, Times(Rd(a, (l + i) + j * lda),
                                                    Rd(o.x, ix))))
                   IN  [x |-> Put(o.x, j, 0, temp),
                        kx |-> IF (n - 1 - j) >= k
                               THEN o.kx - incx ELSE o.kx])
      IN  res.x

---------------------------------------------------------------------------
(* daxpby: y := alpha*x + beta*y.                                          *)

\* src/src/cpp/daxpby.cpp
daxpby(n, alpha, x, incx, beta, y, incy) ==
  IF n <= 0 THEN y
  ELSE IF alpha = zero /\ beta /= zero THEN
    IF incy = 1 THEN
      LET res == ForUp(0, n - 1, y, LAMBDA y1, i :
                   Wr(y1, i, Times(beta, Rd(y1, i))))
      IN  res
    ELSE
      \* for (i = 0; i < nincx; i += incy): n iterations when nincx > 0,
      \* none when incy and with it nincx are negative
      LET nincx == n * incy
          iters == IF 0 < nincx THEN n ELSE 0
          res == ForUp(0, iters - 1, y, LAMBDA y1, t :
                   Wr(y1, t * incy, Times(beta, Rd(y1, t * incy))))
      IN  res
  ELSE
    LET ix0 == IF incx < 0 THEN (-n + 1) * incx ELSE 0
        iy0 == IF incy < 0 THEN (-n + 1) * incy ELSE 0
        res == ForUp(0, n - 1, y, LAMBDA y1, i :
                 Wr(y1, iy0 + i * incy,
                    Plus(Times(beta, Rd(y1, iy0 + i * incy)),
                         Times(alpha, Rd(x, ix0 + i * incx)))))
    IN  res

---------------------------------------------------------------------------
(* dgemm: C := alpha*op(A)*op(B) + beta*C.                                 *)

\* the element of b a loop of dgemm reads as op(B)[l, j], ignoring transb
ElemOpB_untransposed(notb, b, ldb, l, j) == Rd(b, l + j * ldb)

\* the element of b a loop of dgemm reads as op(B)[l, j]:
\* b[l + j*ldb] where B is not transposed, b[j + l*ldb] where it is
ElemOpB(notb, b, ldb, l, j) ==
  IF notb THEN Rd(b, l + j * ldb) ELSE Rd(b, j + l * ldb)

\* src/unnamed/part_012 (transa and transb are characters); the branches
\* for B and B^T differ only in the element of b they read
dgemm(transa, transb, m, n, k, alpha, a, lda, b, ldb, beta, c, ldc) ==
  LET nota == (transa = CharN \/ transa = Charn)
      notb == (transb = CharN \/ transb = Charn)
  IN
  IF m = 0 \/ n = 0 \/ ((alpha = zero \/ k = 0) /\ beta = one) THEN c
  ELSE IF alpha = zero THEN
    LET res == ForUp(0, n - 1, c, LAMBDA c1, j :
                 LET r == ForUp(0, m - 1, c1, LAMBDA c2, i :
                            Wr(c2, i + j * ldc,
                               IF beta = zero THEN zero
                               ELSE Times(beta, Rd(c2, i + j * ldc))))
                 IN  r)
    IN  res
  ELSE IF nota THEN
    LET res == ForUp(0, n - 1, c, LAMBDA c1, j :
                 LET cs == IF beta = zero
                           THEN ForUp(0, m - 1, c1, LAMBDA c2, i :
                                  Wr(c2, i + j * ldc, zero))
                           ELSE IF beta /= one
                           THEN ForUp(0, m - 1, c1, LAMBDA c2, i :
                                  Wr(c2, i + j * ldc,
                                     Times(beta, Rd(c2, i + j * ldc))))
                           ELSE c1
                     r == ForUp(0, k - 1, cs, LAMBDA c2, l :
                            LET temp == Times(alpha,
                                              ElemOpB(notb, b, ldb, l, j))
                                r2 == ForUp(0, m - 1, c2, LAMBDA c3, i :
                                        Wr(c3, i + j * ldc,
                                           Plus(Rd(c3, i + j * ldc),
                                                Times(temp,
                                                      Rd(a, i + l * lda)))))
                            IN  r2)
                 IN  r)
    IN  res
  ELSE
    LET res == ForUp(0, n - 1, c, LAMBDA c1, j :
                 LET r == ForUp(0, m - 1, c1, LAMBDA c2, i :
                            LET temp == ForUp(0, k - 1, zero, LAMBDA t, l :
                                          Plus(t, Times(Rd(a, l + i * lda),
                                                        ElemOpB(notb, b, ldb,
                                                                l, j))))
                            IN  Wr(c2, i + j * ldc,
                                   IF beta = zero THEN Times(alpha, temp)
                                   ELSE Plus(Times(alpha, temp),
                                             Times(beta,
                                                   Rd(c2, i + j * ldc)))))
                 IN  r)
    IN  res

---------------------------------------------------------------------------
(* dtpmv and dtpsv: x := op(A)*x and x := inv(op(A))*x, A packed.          *)
(* kk, the offset in ap of the column being processed, is carried through  *)
(* the outer loop.  The unit-stride branches step i with k alongside, the  *)
(* strided branches step k with ix alongside; both visit the same pairs    *)
(* (ap[k], x[ix]) and are one loop over i here.                            *)

\* src/src/cpp/dtpmv.cpp (uplo, trans, diag are integers: 0 = upper, 'N',
\* non-unit)
dtpmv(uplo, trans, diag, n, ap, x, incx) ==
  LET nounit == (diag = 0)
      kx == IF incx <= 0 THEN -(n - 1) * incx ELSE 0
      IX(i) == kx + i * incx
      last == (n * (n + 1)) \div 2 - 1
      \* if (x[jx] != 0.0) { <inner loop gave r>; if (nounit) x[jx] *= ap[d] }
      Col(x1, j, r, d) ==
        IF Rd(x1, IX(j)) /= zero
        THEN IF nounit
             THEN Wr(r, IX(j), Times(Rd(r, IX(j)), Rd(ap, d)))
             ELSE r
        ELSE x1
      \* temp = x[jx]; if (nounit) temp *= ap[kk]
      Temp0(x1, j, d) ==
        IF nounit THEN Times(Rd(x1, IX(j)), Rd(ap, d)) ELSE Rd(x1, IX(j))
  IN
  IF n = 0 THEN x
  ELSE IF trans = 0 THEN
    IF uplo = 0 THEN
      LET res == ForUp(0, n - 1, [x |-> x, kk |-> 0], LAMBDA o, j :
                   LET temp == Rd(o.x, IX(j))
                       r == ForUp(0, j - 1, o.x, LAMBDA x2, i :
                              Wr(x2, IX(i),
                                 Plus(Rd(x2, IX(i)),
                                      Times(temp, Rd(ap, o.kk + i)))))
                   IN  [x |-> Col(o.x, j, r, o.kk + j),
                        kk |-> o.kk + j + 1])
      IN  res.x
    ELSE
      LET res == ForDown(n - 1, 0, [x |-> x, kk |-> last], LAMBDA o, j :
                   LET temp == Rd(o.x, IX(j))
                       r == ForDown(n - 1, j + 1, o.x, LAMBDA x2, i :
                              Wr(x2, IX(i),
                                 Plus(Rd(x2, IX(i)),
                                      Times(temp,
                                            Rd(ap, o.kk - (n - 1 - i))))))
                   IN  [x |-> Col(o.x, j, r, o.kk - n + j + 1),
                        kk |-> o.kk - (n - j)])
      IN  res.x
  ELSE
    IF uplo = 0 THEN
      LET res == ForDown(n - 1, 0, [x |-> x, kk |-> last], LAMBDA o, j :
                   LET temp == ForDown(j - 1, 0, Temp0(o.x, j, o.kk),
                                       LAMBDA t, i :
                                 Plus(t, Times(Rd(ap, o.kk - (j - i)),
                                               Rd(o.x, IX(i)))))
                   IN  [x |-> Wr(o.x, IX(j), temp),
                        kk |-> o.kk - (j + 1)])
      IN  res.x
    ELSE
      LET res == ForUp(0, n - 1, [x |-> x, kk |-> 0], LAMBDA o, j :
                   LET temp == ForUp(j + 1, n - 1, Temp0(o.x, j, o.kk),
                                     LAMBDA t, i :
                                 Plus(t, Times(Rd(ap, o.kk + (i - j)),
                                               Rd(o.x, IX(i)))))
                   IN  [x |-> Wr(o.x, IX(j), temp),
                        kk |-> o.kk + (n - j)])
      IN  res.x

\* src/src/cpp/dtpsv.cpp (uplo, trans, diag are integers: 0 = upper, 'N',
\* non-unit)
dtpsv(uplo, trans, diag, n, ap, x, incx) ==
  LET nounit == (diag = 0)
      kx == IF incx <= 0 THEN -(n - 1) * incx ELSE 0
      IX(i) == kx + i * incx
      last == (n * (n + 1)) \div 2 - 1
      \* if (nounit) x[jx] /= ap[kk]
      Div(x1, j, d) ==
        IF nounit THEN Wr(x1, IX(j), Over(Rd(x1, IX(j)), Rd(ap, d))) ELSE x1
      \* if (nounit) temp /= ap[d]; x[jx] = temp
      Put(x1, j, d, temp) ==
        Wr(x1, IX(j), IF nounit THEN Over(temp, Rd(ap, d)) ELSE temp)
  IN
  IF n = 0 THEN x
  ELSE IF trans = 0 THEN
    IF uplo = 0 THEN
      LET res == ForDown(n - 1, 0, [x |-> x, kk |-> last], LAMBDA o, j :
                   LET xd == Div(o.x, j, o.kk)
                       temp == Rd(xd, IX(j))
                       r == ForDown(j - 1, 0, xd, LAMBDA x2, i :
                              Wr(x2, IX(i),
                                 Minus(Rd(x2, IX(i)),
                                       Times(temp,
                                             Rd(ap, o.kk - (j - i))))))
                   IN  [x |-> IF Rd(o.x, IX(j)) /= zero THEN r ELSE o.x,
                        kk |-> o.kk - (j + 1)])
      IN  res.x
    ELSE
      LET res == ForUp(0, n - 1, [x |-> x, kk |-> 0], LAMBDA o, j :
                   LET xd == Div(o.x, j, o.kk)
                       temp == Rd(xd, IX(j))
                       r == ForUp(j + 1, n - 1, xd, LAMBDA x2, i :
                              Wr(x2, IX(i),
                                 Minus(Rd(x2, IX(i)),
                                       Times(temp,
                                             Rd(ap, o.kk + (i - j))))))
                   IN  [x |-> IF Rd(o.x, IX(j)) /= zero THEN r ELSE o.x,
                        kk |-> o.kk + (n - j)])
      IN  res.x
  ELSE
    IF uplo = 0 THEN
      LET res == ForUp(0, n - 1, [x |-> x, kk |-> 0], LAMBDA o, j :
                   LET temp == ForUp(0, j - 1, Rd(o.x, IX(j)), LAMBDA t, i :
                                 Minus(t, Times(Rd(ap, o.kk + i),
                                                Rd(o.x, IX(i)))))
                   IN  [x |-> Put(o.x, j, o.kk + j, temp),
                        kk |-> o.kk + j + 1])
      IN  res.x
    ELSE
      LET res == ForDown(n - 1, 0, [x |-> x, kk |-> last], LAMBDA o, j :
                   LET temp == ForDown(n - 1, j + 1, Rd(o.x, IX(j)),
                                       LAMBDA t, i :
                                 Minus(t, Times(Rd(ap, o.kk - (n - 1 - i)),
                                                Rd(o.x, IX(i)))))
                   IN  [x |-> Put(o.x, j, o.kk - n + j + 1, temp),
                        kk |-> o.kk - (n - j)])
      IN  res.x

---------------------------------------------------------------------------
(* dspmv, dspr, dspr2: the symmetric routines on packed storage, and dsyr, *)
(* dsyr2: the dense rank updates.  kk is carried as in dtpmv.               *)

\* kk += j  (the column of the upper triangle taken one element short)
SpmvNextKK_short(upper, n, kk, j) ==
  IF upper THEN kk + j ELSE kk + (n - j)

\* src/src/cpp/dspmv.cpp: kk += j + 1 (upper), kk += (n - j) (lower)
SpmvNextKK(upper, n, kk, j) ==
  IF upper THEN kk + j + 1 ELSE kk + (n - j)

\* src/src/cpp/dspmv.cpp (uplo is an integer: 0 = upper)
dspmv(uplo, n, alpha, ap, x, incx, beta, y, incy) ==
  LET kx == IF incx > 0 THEN 0 ELSE -(n - 1) * incx
      ky == IF incy > 0 THEN 0 ELSE -(n - 1) * incy
      X(i) == Rd(x, kx + i * incx)
      IY(i) == ky + i * incy
      \* y[iy] += temp1 * ap[k]; temp2 += ap[k] * x[ix]
      Inner(temp1, k, s, i) ==
        [y |-> Wr(s.y, IY(i), Plus(Rd(s.y, IY(i)),
                                   Times(temp1, Rd(ap, k)))),
         temp2 |-> Plus(s.temp2, Times(Rd(ap, k), X(i)))]
  IN
  IF n = 0 \/ (alpha = zero /\ beta = one) THEN y
  ELSE
    LET ys == ScaleVec(n, beta, y, ky, incy) IN
    IF alpha = zero THEN ys
    ELSE IF uplo = 0 THEN
      LET res == ForUp(0, n - 1, [y |-> ys, kk |-> 0], LAMBDA o, j :
                   LET temp1 == Times(alpha, X(j))
                       r == ForUp(0, j - 1, [y |-> o.y, temp2 |-> zero],
                                  LAMBDA s, i : Inner(temp1, o.kk + i, s, i))
                   IN  [y |-> Wr(r.y, IY(j),
                                 Plus(Rd(r.y, IY(j)),
                                      Plus(Times(temp1, Rd(ap, o.kk + j)),
                                           Times(alpha, r.temp2)))),
                        kk |-> SpmvNextKK(TRUE, n, o.kk, j)])
      IN  res.y
    ELSE
      LET res == ForUp(0, n - 1, [y |-> ys, kk |-> 0], LAMBDA o, j :
                   LET temp1 == Times(alpha, X(j))
                       yd == Wr(o.y, IY(j),
                                Plus(Rd(o.y, IY(j)),
                                     Times(temp1, Rd(ap, o.kk))))
                       r == ForUp(j + 1, n - 1, [y |-> yd, temp2 |-> zero],
                                  LAMBDA s, i :
                                    Inner(temp1, o.kk + (i - j), s, i))
                   IN  [y |-> Wr(r.y, IY(j),
                                 Plus(Rd(r.y, IY(j)),
                                      Times(alpha, r.temp2))),
                        kk |-> SpmvNextKK(FALSE, n, o.kk, j)])
      IN  res.y

\* src/src/cpp/dspr.cpp (uplo is an integer: 0 = upper)
dspr(uplo, n, alpha, x, incx, ap) ==
  LET kx == IF incx <= 0 THEN -(n - 1) * incx ELSE 0
      X(i) == Rd(x, kx + i * incx)
      \* if (x[jx] != 0.0) for i in lo..hi: ap[kk + i - lo] += x[ix] * temp
      Col(o, j, lo, hi) ==
        IF X(j) /= zero
        THEN LET temp == Times(alpha, X(j))
                 r == ForUp(lo, hi, o.ap, LAMBDA ap1, i :
                        Wr(ap1, o.kk + (i - lo),
                           Plus(Rd(ap1, o.kk + (i - lo)),
                                Times(X(i), temp))))
             IN  r
        ELSE o.ap
  IN
  IF n = 0 \/ alpha = zero THEN ap
  ELSE IF uplo = 0 THEN
    LET res == ForUp(0, n - 1, [ap |-> ap, kk |-> 0], LAMBDA o, j :
                 [ap |-> Col(o, j, 0, j), kk |-> o.kk + j + 1])
    IN  res.ap
  ELSE
    LET res == ForUp(0, n - 1, [ap |-> ap, kk |-> 0], LAMBDA o, j :
                 [ap |-> Col(o, j, j, n - 1), kk |-> o.kk + (n - j)])
    IN  res.ap

\* src/unnamed/part_011 (uplo is an integer: 0 = upper)
dspr2(uplo, n, alpha, x, incx, y, incy, ap) ==
  LET need_offsets == (incx /= 1) \/ (incy /= 1)
      kx == IF need_offsets /\ ~(incx > 0) THEN -(n - 1) * incx ELSE 0
      ky == IF need_offsets /\ ~(incy > 0) THEN -(n - 1) * incy ELSE 0
      X(i) == Rd(x, kx + i * incx)
      Y(i) == Rd(y, ky + i * incy)
      \* if (x[jx] != 0.0 || y[jy] != 0.0) for i in lo..hi:
      \*   ap[kk + i - lo] += x[ix] * temp1 + y[iy] * temp2
      Col(o, j, lo, hi) ==
        IF X(j) /= zero \/ Y(j) /= zero
        THEN LET temp1 == Times(alpha, Y(j))
                 temp2 == Times(alpha, X(j))
                 r == ForUp(lo, hi, o.ap, LAMBDA ap1, i :
                        Wr(ap1, o.kk + (i - lo),
                           Plus(Rd(ap1, o.kk + (i - lo)),
                                Plus(Times(X(i), temp1),
                                     Times(Y(i), temp2)))))
             IN  r
        ELSE o.ap
  IN
  IF n = 0 \/ alpha = zero THEN ap
  ELSE IF uplo = 0 THEN
    LET res == ForUp(0, n - 1, [ap |-> ap, kk |-> 0], LAMBDA o, j :
                 [ap |-> Col(o, j, 0, j), kk |-> o.kk + j + 1])
    IN  res.ap
  ELSE
    LET res == ForUp(0, n - 1, [ap |-> ap, kk |-> 0], LAMBDA o, j :
                 [ap |-> Col(o, j, j, n - 1), kk |-> o.kk + (n - j)])
    IN  res.ap

\* src/src/cpp/dsyr.cpp
dsyr(uplo, n, alpha, x, incx, a, lda) ==
  LET kx == IF incx < 0 THEN (-n + 1) * incx ELSE 0
      upper == (uplo = CharU \/ uplo = Charu)
      X(i) == Rd(x, kx + i * incx)
      Col(a0, j, lo, hi) ==
        IF X(j) /= zero
        THEN LET temp == Times(alpha, X(j))
                 r == ForUp(lo, hi, a0, LAMBDA a1, i :
                        Wr(a1, i + j * lda,
                           Plus(Rd(a1, i + j * lda), Times(X(i), temp))))
             IN  r
        ELSE a0
  IN
  IF n = 0 \/ alpha = zero THEN a
  ELSE IF upper THEN
    LET res == ForUp(0, n - 1, a, LAMBDA a0, j : Col(a0, j, 0, j))
    IN  res
  ELSE
    LET res == ForUp(0, n - 1, a, LAMBDA a0, j : Col(a0, j, j, n - 1))
    IN  res

\* src/src/cpp/dsyr2.cpp
dsyr2(uplo, n, alpha, x, incx, y, incy, a, lda) ==
  LET kx == IF incx < 0 THEN (-n + 1) * incx ELSE 0
      ky == IF incy < 0 THEN (-n + 1) * incy ELSE 0
      upper == (uplo = CharU \/ uplo = Charu)
      X(i) == Rd(x, kx + i * incx)
      Y(i) == Rd(y, ky + i * incy)
      Col(a0, j, lo, hi) ==
        IF X(j) /= zero \/ Y(j) /= zero
        THEN LET temp1 == Times(alpha, Y(j))
                 temp2 == Times(alpha, X(j))
                 r == ForUp(lo, hi, a0, LAMBDA a1, i :
                        Wr(a1, i + j * lda,
                           Plus(Rd(a1, i + j * lda),
                                Plus(Times(X(i), temp1),
                                     Times(Y(i), temp2)))))
             IN  r
        ELSE a0
  IN
  IF n = 0 \/ alpha = zero THEN a
  ELSE IF upper THEN
    LET res == ForUp(0, n - 1, a, LAMBDA a0, j : Col(a0, j, 0, j))
    IN  res
  ELSE
    LET res == ForUp(0, n - 1, a, LAMBDA a0, j : Col(a0, j, j, n - 1))
    IN  res

---------------------------------------------------------------------------
(* dtrsm and dtrmm: B := alpha*inv(op(A))*B or alpha*B*inv(op(A)), and     *)
(* B := alpha*op(A)*B or alpha*B*op(A), A triangular, B m by n.            *)

\* for (i = 0; i < m; i++) b[i + j*ldb] = f * b[i + j*ldb]
ScaleCol(m, b, ldb, j, f) ==
  LET r == ForUp(0, m - 1, b, LAMBDA b1, i :
             Wr(b1, i + j * ldb, Times(f, Rd(b1, i + j * ldb))))
  IN  r

\* for (i = 0; i < m; i++) b[i + j*ldb] += f * b[i + k*ldb]
AddCol(m, b, ldb, j, k, f) ==
  LET r == ForUp(0, m - 1, b, LAMBDA b1, i :
             Wr(b1, i + j * ldb,
                Plus(Rd(b1, i + j * ldb), Times(f, Rd(b1, i + k * ldb)))))
  IN  r

\* for (i = 0; i < m; i++) b[i + j*ldb] -= f * b[i + k*ldb]
SubCol(m, b, ldb, j, k, f) ==
  LET r == ForUp(0, m - 1, b, LAMBDA b1, i :
             Wr(b1, i + j * ldb,
                Minus(Rd(b1, i + j * ldb), Times(f, Rd(b1, i + k * ldb)))))
  IN  r

\* for (j..) for (i..) b[i + j*ldb] = zero
ZeroMat(m, n, b, ldb) ==
  LET r == ForUp(0, n - 1, b, LAMBDA b0, j :
             ForUp(0, m - 1, b0, LAMBDA b1, i : Wr(b1, i + j * ldb, zero)))
  IN  r

\* src/unnamed/part_011
dtrsm(side, uplo, transa, diag, m, n, alpha, a, lda, b, ldb) ==
  LET left == (side = CharL \/ side = Charl)
      upper == (uplo = CharU \/ uplo = Charu)
      notrans == (transa = CharN \/ transa = Charn)
      nounit == (diag = CharN \/ diag = Charn)
      A(i, j) == Rd(a, i + j * lda)
      BI(i, j) == i + j * ldb
      \* if (alpha != one) b[., j] = alpha * b[., j]
      Alpha(b0, j) == IF alpha /= one THEN ScaleCol(m, b0, ldb, j, alpha)
                      ELSE b0
      \* if (nounit) b[., j] = (one / a[j + j*lda]) * b[., j]
      InvDiag(b0, j) == IF nounit
                        THEN ScaleCol(m, b0, ldb, j, Over(one, A(j, j)))
                        ELSE b0
      \* one column of a left, untransposed solve: step k with rows lo..hi
      LeftN(b0, j, k, lo, hi) ==
        IF Rd(b0, BI(k, j)) /= zero
        THEN LET bd == IF nounit
                       THEN Wr(b0, BI(k, j), Over(Rd(b0, BI(k, j)), A(k, k)))
                       ELSE b0
                 r == ForUp(lo, hi, bd, LAMBDA b1, i :
                        Wr(b1, BI(i, j),
                           Minus(Rd(b1, BI(i, j)),
                                 Times(Rd(b1, BI(k, j)), A(i, k)))))
             IN  r
        ELSE b0
      \* one element of a left, transposed solve, with k in lo..hi
      LeftT(b0, j, i, lo, hi) ==
        LET t == ForUp(lo, hi, Times(alpha, Rd(b0, BI(i, j))), LAMBDA t1, k :
                   Minus(t1, Times(A(k, i), Rd(b0, BI(k, j)))))
        IN  Wr(b0, BI(i, j), IF nounit THEN Over(t, A(i, i)) ELSE t)
      \* the columns lo..hi subtracted from column j, untransposed
      RightN(b0, j, lo, hi) ==
        LET r == ForUp(lo, hi, b0, LAMBDA b1, k :
                   IF A(k, j) /= zero
                   THEN SubCol(m, b1, ldb, j, k, A(k, j))
                   ELSE b1)
        IN  r
      \* column k subtracted from the columns lo..hi, transposed
      RightT(b0, k, lo, hi) ==
        LET r == ForUp(lo, hi, b0, LAMBDA b1, j :
                   IF A(j, k) /= zero
                   THEN SubCol(m, b1, ldb, j, k, A(j, k))
                   ELSE b1)
        IN  r
  IN
  IF m = 0 \/ n = 0 THEN b
  ELSE IF alpha = zero THEN ZeroMat(m, n, b, ldb)
  ELSE IF left THEN
    IF notrans THEN
      IF upper THEN
        LET res == ForUp(0, n - 1, b, LAMBDA b0, j :
                     ForDown(m - 1, 0, Alpha(b0, j), LAMBDA b1, k :
                       LeftN(b1, j, k, 0, k - 1)))
        IN  res
      ELSE
        LET res == ForUp(0, n - 1, b, LAMBDA b0, j :
                     ForUp(0, m - 1, Alpha(b0, j), LAMBDA b1, k :
                       LeftN(b1, j, k, k + 1, m - 1)))
        IN  res
    ELSE
      IF upper THEN
        LET res == ForUp(0, n - 1, b, LAMBDA b0, j :
                     ForUp(0, m - 1, b0, LAMBDA b1, i :
                       LeftT(b1, j, i, 0, i - 1)))
        IN  res
      ELSE
        LET res == ForUp(0, n - 1, b, LAMBDA b0, j :
                     ForDown(m - 1, 0, b0, LAMBDA b1, i :
                       LeftT(b1, j, i, i + 1, m - 1)))
        IN  res
  ELSE
    IF notrans THEN
      IF upper THEN
        LET res == ForUp(0, n - 1, b, LAMBDA b0, j :
                     InvDiag(RightN(Alpha(b0, j), j, 0, j - 1), j))
        IN  res
      ELSE
        LET res == ForDown(n - 1, 0, b, LAMBDA b0, j :
                     InvDiag(RightN(Alpha(b0, j), j, j + 1, n - 1), j))
        IN  res
    ELSE
      IF upper THEN
        LET res == ForDown(n - 1, 0, b, LAMBDA b0, k :
                     Alpha(RightT(InvDiag(b0, k), k, 0, k - 1), k))
        IN  res
      ELSE
        LET res == ForUp(0, n - 1, b, LAMBDA b0, k :
                     Alpha(RightT(InvDiag(b0, k), k, k + 1, n - 1), k))
        IN  res

\* temp = temp * a[k + k*lda] whatever diag says
TimesDiag_always(nounit, temp, a, lda, k) ==
  Times(temp, Rd(a, k + k * lda))

\* src/src/cpp/dtrmm.cpp: if (nounit) temp = temp * a[k + k*lda]
TimesDiag(nounit, temp, a, lda, k) ==
  IF nounit THEN Times(temp, Rd(a, k + k * lda)) ELSE temp

\* src/src/cpp/dtrmm.cpp
dtrmm(side, uplo, transa, diag, m, n, alpha, a, lda, b, ldb) ==
  LET left == (side = CharL \/ side = Charl)
      upper == (uplo = CharU \/ uplo = Charu)
      notrans == (transa = CharN \/ transa = Charn)
      nounit == (diag = CharN \/ diag = Charn)
      A(i, j) == Rd(a, i + j * lda)
      BI(i, j) == i + j * ldb
      \* left, untransposed, upper: step k of column j
      LeftNU(b0, j, k) ==
        IF Rd(b0, BI(k, j)) /= zero
        THEN LET temp == Times(alpha, Rd(b0, BI(k, j)))
                 r == ForUp(0, k - 1, b0, LAMBDA b1, i :
                        Wr(b1, BI(i, j),
                           Plus(Rd(b1, BI(i, j)), Times(temp, A(i, k)))))
             IN  Wr(r, BI(k, j), TimesDiag(nounit, temp, a, lda, k))
        ELSE b0
      \* left, untransposed, lower: step k of column j
      LeftNL(b0, j, k) ==
        IF Rd(b0, BI(k, j)) /= zero
        THEN LET temp == Times(alpha, Rd(b0, BI(k, j)))
                 bd == Wr(b0, BI(k, j), TimesDiag(nounit, temp, a, lda, k))
                 r == ForUp(k + 1, m - 1, bd, LAMBDA b1, i :
                        Wr(b1, BI(i, j),
                           Plus(Rd(b1, BI(i, j)), Times(temp, A(i, k)))))
             IN  r
        ELSE b0
      \* left, transposed: element i of column j, with k in lo..hi
      LeftT(b0, j, i, lo, hi) ==
        LET t == ForUp(lo, hi,
                       TimesDiag(nounit, Rd(b0, BI(i, j)), a, lda, i),
                       LAMBDA t1, k :
                         Plus(t1, Times(A(k, i), Rd(b0, BI(k, j)))))
        IN  Wr(b0, BI(i, j), Times(alpha, t))
      \* right, untransposed: column j, with k in lo..hi
      RightN(b0, j, lo, hi) ==
        LET bs == ScaleCol(m, b0, ldb, j,
                           TimesDiag(nounit, alpha, a, lda, j))
            r == ForUp(lo, hi, bs, LAMBDA b1, k :
                   IF A(k, j) /= zero
                   THEN AddCol(m, b1, ldb, j, k, Times(alpha, A(k, j)))
                   ELSE b1)
        IN  r
      \* right, transposed: column k added to the columns lo..hi
      RightT(b0, k, lo, hi) ==
        LET r == ForUp(lo, hi, b0, LAMBDA b1, j :
                   IF A(j, k) /= zero
                   THEN AddCol(m, b1, ldb, j, k, Times(alpha, A(j, k)))
                   ELSE b1)
            temp == TimesDiag(nounit, alpha, a, lda, k)
        IN  IF temp /= one THEN ScaleCol(m, r, ldb, k, temp) ELSE r
  IN
  IF m = 0 \/ n = 0 THEN b
  ELSE IF alpha = zero THEN ZeroMat(m, n, b, ldb)
  ELSE IF left THEN
    IF notrans THEN
      IF upper THEN
        LET res == ForUp(0, n - 1, b, LAMBDA b0, j :
                     ForUp(0, m - 1, b0, LAMBDA b1, k : LeftNU(b1, j, k)))
        IN  res
      ELSE
        LET res == ForUp(0, n - 1, b, LAMBDA b0, j :
                     ForDown(m - 1, 0, b0, LAMBDA b1, k : LeftNL(b1, j, k)))
        IN  res
    ELSE
      IF upper THEN
        LET res == ForUp(0, n - 1, b, LAMBDA b0, j :
                     ForDown(m - 1, 0, b0, LAMBDA b1, i :
                       LeftT(b1, j, i, 0, i - 1)))
        IN  res
      ELSE
        LET res == ForUp(0, n - 1, b, LAMBDA b0, j :
                     ForUp(0, m - 1, b0, LAMBDA b1, i :
                       LeftT(b1, j, i, i + 1, m - 1)))
        IN  res
  ELSE
    IF notrans THEN
      IF upper THEN
        LET res == ForDown(n - 1, 0, b, LAMBDA b0, j :
                     RightN(b0, j, 0, j - 1))
        IN  res
      ELSE
        LET res == ForUp(0, n - 1, b, LAMBDA b0, j :
                     RightN(b0, j, j + 1, n - 1))
        IN  res
    ELSE
      IF upper THEN
        LET res == ForUp(0, n - 1, b, LAMBDA b0, k :
                     RightT(b0, k, 0, k - 1))
        IN  res
      ELSE
        LET res == ForDown(n - 1, 0, b, LAMBDA b0, k :
                     RightT(b0, k, k + 1, n - 1))
        IN  res

---------------------------------------------------------------------------
(* dsyrk, dsyr2k, dgemmtr: updates of one triangle of the n by n matrix C. *)

\* c[i + j*ldc] = beta * c[i + j*ldc] whatever beta is
BetaElem_scaled(beta, v) == Times(beta, v)

\* src/src/cpp/daxpby.cpp: if (beta == zero) c[i + j*ldc] = zero;
\* else c[i + j*ldc] = beta * c[i + j*ldc]
BetaElem(beta, v) == IF beta = zero THEN zero ELSE Times(beta, v)

\* rows ilo..ihi of column j of C set to zero or scaled by beta
BetaCol(beta, c, ldc, j, ilo, ihi) ==
  LET r == ForUp(ilo, ihi, c, LAMBDA c1, i :
             Wr(c1, i + j * ldc, BetaElem(beta, Rd(c1, i + j * ldc))))
  IN  r

\* src/src/cpp/daxpby.cpp
dsyrk(uplo, trans, n, k, alpha, a, lda, beta, c, ldc) ==
  LET upper == (uplo = CharU \/ uplo = Charu)
      notrans == (trans = CharN \/ trans = Charn)
      ILo(j) == IF upper THEN 0 ELSE j
      IHi(j) == IF upper THEN j ELSE n - 1
      CI(i, j) == i + j * ldc
  IN
  IF n = 0 \/ ((alpha = zero \/ k = 0) /\ beta = one) THEN c
  ELSE IF alpha = zero THEN
    LET res == ForUp(0, n - 1, c, LAMBDA c0, j :
                 BetaCol(beta, c0, ldc, j, ILo(j), IHi(j)))
    IN  res
  ELSE IF notrans THEN
    LET res == ForUp(0, n - 1, c, LAMBDA c0, j :
                 LET cb == IF beta = zero \/ beta /= one
                           THEN BetaCol(beta, c0, ldc, j, ILo(j), IHi(j))
                           ELSE c0
                 IN  ForUp(0, k - 1, cb, LAMBDA c1, l :
                       IF Rd(a, j + l * lda) /= zero
                       THEN LET temp == Times(alpha, Rd(a, j + l * lda))
                            IN  ForUp(ILo(j), IHi(j), c1, LAMBDA c2, i :
                                  Wr(c2, CI(i, j),
                                     Plus(Rd(c2, CI(i, j)),
                                          Times(temp, Rd(a, i + l * lda)))))
                       ELSE c1))
    IN  res
  ELSE
    LET res == ForUp(0, n - 1, c, LAMBDA c0, j :
                 ForUp(ILo(j), IHi(j), c0, LAMBDA c1, i :
                   LET temp == ForUp(0, k - 1, zero, LAMBDA t, l :
                                 Plus(t, Times(Rd(a, l + i * lda),
                                               Rd(a, l + j * lda))))
                   IN  Wr(c1, CI(i, j),
                          IF beta = zero THEN Times(alpha, temp)
                          ELSE Plus(Times(alpha, temp),
                                    Times(beta, Rd(c1, CI(i, j)))))))
    IN  res

\* src/src/cpp/dsyr2k.cpp
dsyr2k(uplo, trans, n, k, alpha, a, lda, b, ldb, beta, c, ldc) ==
  LET upper == (uplo = CharU \/ uplo = Charu)
      notrans == (trans = CharN \/ trans = Charn)
      ILo(j) == IF upper THEN 0 ELSE j
      IHi(j) == IF upper THEN j ELSE n - 1
      CI(i, j) == i + j * ldc
  IN
  IF n = 0 \/ ((alpha = zero \/ k = 0) /\ beta = one) THEN c
  ELSE IF alpha = zero THEN
    LET res == ForUp(0, n - 1, c, LAMBDA c0, j :
                 BetaCol(beta, c0, ldc, j, ILo(j), IHi(j)))
    IN  res
  ELSE IF notrans THEN
    LET res == ForUp(0, n - 1, c, LAMBDA c0, j :
                 LET cb == IF beta = zero \/ beta /= one
                           THEN BetaCol(beta, c0, ldc, j, ILo(j), IHi(j))
                           ELSE c0
                 IN  ForUp(0, k - 1, cb, LAMBDA c1, l :
                       IF Rd(a, j + l * lda) /= zero
                          \/ Rd(b, j + l * ldb) /= zero
                       THEN LET temp1 == Times(alpha, Rd(b, j + l * ldb))
                                temp2 == Times(alpha, Rd(a, j + l * lda))
                            IN  ForUp(ILo(j), IHi(j), c1, LAMBDA c2, i :
                                  Wr(c2, CI(i, j),
                                     Plus(Rd(c2, CI(i, j)),
                                          Plus(Times(Rd(a, i + l * lda),
                                                     temp1),
                                               Times(Rd(b, i + l * ldb),
                                                     temp2)))))
                       ELSE c1))
    IN  res
  ELSE
    LET res == ForUp(0, n - 1, c, LAMBDA c0, j :
                 ForUp(ILo(j), IHi(j), c0, LAMBDA c1, i :
                   LET temp1 == ForUp(0, k - 1, zero, LAMBDA t, l :
                                  Plus(t, Times(Rd(a, l + i * lda),
                                                Rd(b, l + j * ldb))))
                       temp2 == ForUp(0, k - 1, zero, LAMBDA t, l :
                                  Plus(t, Times(Rd(b, l + i * ldb),
                                                Rd(a, l + j * lda))))
                       at == Plus(Times(alpha, temp1), Times(alpha, temp2))
                   IN  Wr(c1, CI(i, j),
                          IF beta = zero THEN at
                          ELSE Plus(at, Times(beta, Rd(c1, CI(i, j)))))))
    IN  res

\* istop = n - 1 for either triangle
GemmtrStop_full(upper, n, j) == n - 1

\* src/unnamed/part_013: int istop = upper ? j : n - 1
GemmtrStop(upper, n, j) == IF upper THEN j ELSE n - 1

\* src/unnamed/part_013 (uplo, transa, transb are integers: 0 = upper, 'N')
dgemmtr(uplo, transa, transb, n, k, alpha, a, lda, b, ldb, beta, c, ldc) ==
  LET nota == (transa = 0)
      notb == (transb = 0)
      upper == (uplo = 0)
      istart(j) == IF upper THEN 0 ELSE j
      istop(j) == GemmtrStop(upper, n, j)
      CI(i, j) == i + j * ldc
      ElemA(i, l) == IF nota THEN Rd(a, i + l * lda) ELSE Rd(a, l + i * lda)
      ElemB(l, j) == IF notb THEN Rd(b, l + j * ldb) ELSE Rd(b, j + l * ldb)
  IN
  IF n = 0 THEN c
  ELSE IF alpha = zero THEN
    LET res == ForUp(0, n - 1, c, LAMBDA c0, j :
                 BetaCol(beta, c0, ldc, j, istart(j), istop(j)))
    IN  res
  ELSE IF nota THEN
    LET res == ForUp(0, n - 1, c, LAMBDA c0, j :
                 LET cb == IF beta = zero \/ beta /= one
                           THEN BetaCol(beta, c0, ldc, j, istart(j),
                                        istop(j))
                           ELSE c0
                 IN  ForUp(0, k - 1, cb, LAMBDA c1, l :
                       LET temp == Times(alpha, ElemB(l, j))
                       IN  ForUp(istart(j), istop(j), c1, LAMBDA c2, i :
                             Wr(c2, CI(i, j),
                                Plus(Rd(c2, CI(i, j)),
                                     Times(temp, Rd(a, i + l * lda)))))))
    IN  res
  ELSE
    LET res == ForUp(0, n - 1, c, LAMBDA c0, j :
                 ForUp(istart(j), istop(j), c0, LAMBDA c1, i :
                   LET temp == ForUp(0, k - 1, zero, LAMBDA t, l :
                                 Plus(t, Times(ElemA(i, l), ElemB(l, j))))
                   IN  Wr(c1, CI(i, j),
                          IF beta = zero THEN Times(alpha, temp)
                          ELSE Plus(Times(alpha, temp),
                                    Times(beta, Rd(c1, CI(i, j)))))))
    IN  res

---------------------------------------------------------------------------
(* dsymm: C := alpha*A*B + beta*C or alpha*B*A + beta*C, A symmetric.      *)

\* temp1's factor read at a[k + j*lda] for either triangle
SymmElemA_stored(upper, a, lda, k, j) == Rd(a, k + j * lda)

\* src/src/cpp/dsymm.cpp, side right: the element of A that multiplies
\* column k of B for column j of C, taken from the stored triangle
SymmElemA(upper, a, lda, k, j) ==
  IF k < j
  THEN IF upper THEN Rd(a, k + j * lda) ELSE Rd(a, j + k * lda)
  ELSE IF upper THEN Rd(a, j + k * lda) ELSE Rd(a, k + j * lda)

\* src/src/cpp/dsymm.cpp
dsymm(side, uplo, m, n, alpha, a, lda, b, ldb, beta, c, ldc) ==
  LET left == (side = CharL \/ side = Charl)
      upper == (uplo = CharU \/ uplo = Charu)
      CI(i, j) == i + j * ldc
      \* side left: element i of column j, with k in lo..hi
      Left(c0, j, i, lo, hi) ==
        LET temp1 == Times(alpha, Rd(b, i + j * ldb))
            r == ForUp(lo, hi, [c |-> c0, temp2 |-> zero], LAMBDA o, k :
                   [c |-> Wr(o.c, CI(k, j),
                             Plus(Rd(o.c, CI(k, j)),
                                  Times(temp1, Rd(a, k + i * lda)))),
                    temp2 |-> Plus(o.temp2,
                                   Times(Rd(a, k + i * lda),
                                         Rd(b, k + j * ldb)))])
            t == Plus(Times(temp1, Rd(a, i + i * lda)),
                      Times(alpha, r.temp2))
        IN  Wr(r.c, CI(i, j),
               IF beta = zero THEN t
               ELSE Plus(Times(beta, Rd(r.c, CI(i, j))), t))
      \* side right: column j
      Right(c0, j) ==
        LET temp1 == Times(alpha, Rd(a, j + j * lda))
            cd == ForUp(0, m - 1, c0, LAMBDA c1, i :
                    Wr(c1, CI(i, j),
                       IF beta = zero THEN Times(temp1, Rd(b, i + j * ldb))
                       ELSE Plus(Times(beta, Rd(c1, CI(i, j))),
                                 Times(temp1, Rd(b, i + j * ldb)))))
            Cols(c1, lo, hi) ==
              ForUp(lo, hi, c1, LAMBDA c2, k :
                LET t == Times(alpha, SymmElemA(upper, a, lda, k, j))
                IN  ForUp(0, m - 1, c2, LAMBDA c3, i :
                      Wr(c3, CI(i, j),
                         Plus(Rd(c3, CI(i, j)),
                              Times(t, Rd(b, i + k * ldb))))))
        IN  Cols(Cols(cd, 0, j - 1), j + 1, n - 1)
  IN
  IF m = 0 \/ n = 0
     \/ ((alpha = zero \/ (IF left THEN m ELSE n) = 0) /\ beta = one)
  THEN c
  ELSE IF alpha = zero THEN
    LET res == ForUp(0, n - 1, c, LAMBDA c0, j :
                 ForUp(0, m - 1, c0, LAMBDA c1, i :
                   Wr(c1, CI(i, j),
                      IF beta = zero THEN zero
                      ELSE Times(beta, Rd(c1, CI(i, j))))))
    IN  res
  ELSE IF left THEN
    IF upper THEN
      LET res == ForUp(0, n - 1, c, LAMBDA c0, j :
                   ForUp(0, m - 1, c0, LAMBDA c1, i :
                     Left(c1, j, i, 0, i - 1)))
      IN  res
    ELSE
      LET res == ForUp(0, n - 1, c, LAMBDA c0, j :
                   ForDown(m - 1, 0, c0, LAMBDA c1, i :
                     Left(c1, j, i, i + 1, m - 1)))
      IN  res
  ELSE
    LET res == ForUp(0, n - 1, c, LAMBDA c0, j : Right(c0, j))
    IN  res

---------------------------------------------------------------------------
(* daxpy: y := y + alpha*x.                                                *)

\* no clean-up loop
CleanUp_none(n, w) == 0

\* src/src/cpp/daxpy.cpp: int m = n % 4, the trips of the clean-up loop
\* before the loop unrolled w times (dswap 3, daxpy 4, dscal and ddot 5,
\* dcopy 7)
CleanUp(n, w) == n % w

\* ix = 0 for either sign of the increment
AxpyStart_zero(n, inc) == 0

\* src/src/cpp/daxpy.cpp: int ix = 0; if (incx < 0) ix = (-n + 1) * incx
AxpyStart(n, inc) == IF inc < 0 THEN (-n + 1) * inc ELSE 0

\* src/src/cpp/daxpy.cpp
daxpy(n, alpha, x, incx, y, incy) ==
  LET \* y[i] = y[i] + alpha * x[i]
      Step(y1, i) == Wr(y1, i, Plus(Rd(y1, i), Times(alpha, Rd(x, i))))
  IN
  IF n <= 0 THEN y
  ELSE IF alpha = zero THEN y
  ELSE IF incx = 1 /\ incy = 1 THEN
    LET m == CleanUp(n, 4)
        yc == IF m /= 0
              THEN ForUp(0, m - 1, y, LAMBDA y1, i : Step(y1, i))
              ELSE y
    IN  IF n < 4 THEN yc
        ELSE LET res == ForUp(0, (n - m) \div 4 - 1, yc, LAMBDA y1, q :
                          LET i == m + 4 * q
                          IN  Step(Step(Step(Step(y1, i), i + 1), i + 2),
                                   i + 3))
             IN  res
  ELSE
    LET ix0 == AxpyStart(n, incx)
        iy0 == AxpyStart(n, incy)
        res == ForUp(0, n - 1, y, LAMBDA y1, i :
                 Wr(y1, iy0 + i * incy,
                    Plus(Rd(y1, iy0 + i * incy),
                         Times(alpha, Rd(x, ix0 + i * incx)))))
    IN  res

\* a < b on doubles; a comparison with a non-number is false
Less(a, b) == ~IsNaN(a) /\ ~IsNaN(b) /\ a[1] * b[2] < b[1] * a[2]

\* -a
Neg(a) == Minus(zero, a)

\* src/unnamed/part_012
dcopy(n, x, incx, y, incy) ==
  IF n <= 0 THEN y
  ELSE IF incx = 1 /\ incy = 1 THEN
    LET m == CleanUp(n, 7)
        yc == IF m /= 0
              THEN ForUp(0, m - 1, y, LAMBDA y1, i : Wr(y1, i, Rd(x, i)))
              ELSE y
    IN  IF m /= 0 /\ n < 7 THEN yc
        ELSE LET res == ForUp(0, (n - m) \div 7 - 1, yc, LAMBDA y1, q :
                          ForUp(m + 7 * q, m + 7 * q + 6, y1,
                                LAMBDA y2, i : Wr(y2, i, Rd(x, i))))
             IN  res
  ELSE
    LET ix0 == AxpyStart(n, incx)
        iy0 == AxpyStart(n, incy)
        res == ForUp(0, n - 1, y, LAMBDA y1, i :
                 Wr(y1, iy0 + i * incy, Rd(x, ix0 + i * incx)))
    IN  res

\* src/src/cpp/dscal.cpp
dscal(n, alpha, x, incx) ==
  LET Step(x1, i) == Wr(x1, i, Times(alpha, Rd(x1, i)))
  IN
  IF n <= 0 \/ incx <= 0 \/ alpha = one THEN x
  ELSE IF incx = 1 THEN
    LET m == CleanUp(n, 5)
        xc == IF m /= 0
              THEN ForUp(0, m - 1, x, LAMBDA x1, i : Step(x1, i))
              ELSE x
    IN  IF m /= 0 /\ n < 5 THEN xc
        ELSE LET res == ForUp(0, (n - m) \div 5 - 1, xc, LAMBDA x1, q :
                          ForUp(m + 5 * q, m + 5 * q + 4, x1,
                                LAMBDA x2, i : Step(x2, i)))
             IN  res
  ELSE
    LET res == ForUp(0, n - 1, x, LAMBDA x1, q : Step(x1, q * incx))
    IN  res

\* src/src/cpp/dswap.cpp; the result is the pair of vectors
dswap(n, x, incx, y, incy) ==
  LET \* dtemp = x[ix]; x[ix] = y[iy]; y[iy] = dtemp
      Step(s, ix, iy) ==
        LET dtemp == Rd(s.x, ix)
            x1 == Wr(s.x, ix, Rd(s.y, iy))
        IN  [x |-> x1, y |-> Wr(s.y, iy, dtemp)]
      s0 == [x |-> x, y |-> y]
  IN
  IF n <= 0 THEN s0
  ELSE IF incx = 1 /\ incy = 1 THEN
    LET m == CleanUp(n, 3)
        sc == IF m /= 0
              THEN ForUp(0, m - 1, s0, LAMBDA s, i : Step(s, i, i))
              ELSE s0
    IN  IF m /= 0 /\ n < 3 THEN sc
        ELSE LET res == ForUp(0, (n - m) \div 3 - 1, sc, LAMBDA s, q :
                          ForUp(m + 3 * q, m + 3 * q + 2, s,
                                LAMBDA s2, i : Step(s2, i, i)))
             IN  res
  ELSE
    LET ix0 == AxpyStart(n, incx)
        iy0 == AxpyStart(n, incy)
        res == ForUp(0, n - 1, s0, LAMBDA s, i :
                 Step(s, ix0 + i * incx, iy0 + i * incy))
    IN  res

\* src/src/cpp/ddot.cpp; the result is the returned double
ddot(n, x, incx, y, incy) ==
  IF n <= 0 THEN zero
  ELSE IF incx = 1 /\ incy = 1 THEN
    LET m == CleanUp(n, 5)
        dc == IF m /= 0
              THEN ForUp(0, m - 1, zero, LAMBDA d, i :
                     Plus(d, Times(Rd(x, i), Rd(y, i))))
              ELSE zero
    IN  IF m /= 0 /\ n < 5 THEN dc
        ELSE LET res == ForUp(0, (n - m) \div 5 - 1, dc, LAMBDA d, q :
                          ForUp(m + 5 * q, m + 5 * q + 4, d,
                                LAMBDA d2, i :
                                  Plus(d2, Times(Rd(x, i), Rd(y, i)))))
             IN  res
  ELSE
    LET ix0 == AxpyStart(n, incx)
        iy0 == AxpyStart(n, incy)
        res == ForUp(0, n - 1, zero, LAMBDA d, i :
                 Plus(d, Times(Rd(x, ix0 + i * incx),
                               Rd(y, iy0 + i * incy))))
    IN  res

\* src/src/cpp/drot.cpp: the sine added
RotY_plus(c, s, xv, yv) == Plus(Times(c, yv), Times(s, xv))

\* src/src/cpp/drot.cpp: y[i] = c * y[i] - s * x[i]
RotY(c, s, xv, yv) == Minus(Times(c, yv), Times(s, xv))

\* src/src/cpp/drot.cpp; the result is the pair of vectors
drot(n, x, incx, y, incy, c, s) ==
  LET \* dtemp = c*x[ix] + s*y[iy]; y[iy] = c*y[iy] - s*x[ix]; x[ix] = dtemp
      Step(v, ix, iy) ==
        LET dtemp == Plus(Times(c, Rd(v.x, ix)), Times(s, Rd(v.y, iy)))
            y1 == Wr(v.y, iy, RotY(c, s, Rd(v.x, ix), Rd(v.y, iy)))
        IN  [x |-> Wr(v.x, ix, dtemp), y |-> y1]
      v0 == [x |-> x, y |-> y]
  IN
  IF n <= 0 THEN v0
  ELSE IF incx = 1 /\ incy = 1 THEN
    LET res == ForUp(0, n - 1, v0, LAMBDA v, i : Step(v, i, i))
    IN  res
  ELSE
    LET ix0 == AxpyStart(n, incx)
        iy0 == AxpyStart(n, incy)
        res == ForUp(0, n - 1, v0, LAMBDA v, i :
                 Step(v, ix0 + i * incx, iy0 + i * incy))
    IN  res

\* src/src/cpp/dgemv.cpp: if (n <= 0 || (dflag + two == zero)) return
RotmQuick_nonly(n, dflag) == n <= 0

\* src/src/cpp/dgemv.cpp: if (n <= 0 || (dflag + two == zero)) return
RotmQuick(n, dflag) == n <= 0 \/ Plus(dflag, R(2)) = zero

RotmDiagY_plus(w, z, dh22) == Plus(w, Times(dh22, z))

\* src/src/cpp/dgemv.cpp: y[i] = -w + dh22 * z
RotmDiagY(w, z, dh22) == Plus(Neg(w), Times(dh22, z))

\* src/src/cpp/dgemv.cpp (drotm); the result is the pair of vectors
drotm(n, x, incx, y, incy, param) ==
  LET dflag == Rd(param, 0)
      \* the three forms of H
      Step(v, ix, iy) ==
        LET w == Rd(v.x, ix)
            z == Rd(v.y, iy)
        IN  IF Less(dflag, zero) THEN
              LET dh11 == Rd(param, 1)
                  dh12 == Rd(param, 3)
                  dh21 == Rd(param, 2)
                  dh22 == Rd(param, 4)
                  x1 == Wr(v.x, ix, Plus(Times(w, dh11), Times(z, dh12)))
              IN  [x |-> x1,
                   y |-> Wr(v.y, iy, Plus(Times(w, dh21), Times(z, dh22)))]
            ELSE IF dflag = zero THEN
              LET dh12 == Rd(param, 3)
                  dh21 == Rd(param, 2)
                  x1 == Wr(v.x, ix, Plus(w, Times(z, dh12)))
              IN  [x |-> x1, y |-> Wr(v.y, iy, Plus(Times(w, dh21), z))]
            ELSE
              LET dh11 == Rd(param, 1)
                  dh22 == Rd(param, 4)
                  x1 == Wr(v.x, ix, Plus(Times(w, dh11), z))
              IN  [x |-> x1,
                   y |-> Wr(v.y, iy, RotmDiagY(w, z, dh22))]
      v0 == [x |-> x, y |-> y]
  IN
  IF RotmQuick(n, dflag) THEN v0
  ELSE IF incx = incy /\ incx > 0 THEN
    LET res == ForUp(0, n - 1, v0, LAMBDA v, q :
                 Step(v, q * incx, q * incx))
    IN  res
  ELSE
    LET kx0 == AxpyStart(n, incx)
        ky0 == AxpyStart(n, incy)
        res == ForUp(0, n - 1, v0, LAMBDA v, i :
                 Step(v, kx0 + i * incx, ky0 + i * incy))
    IN  res

\* src/src/cpp/dsymv.cpp (dger); x[i] and y[j] of the unit-stride branches
\* are x[kx + i*incx] and y[ky + j*incy] with kx = ky = 0
dger(m, n, alpha, x, incx, y, incy, a, lda) ==
  LET kx == IF incx < 0 THEN (-m + 1) * incx ELSE 0
      ky == IF incy < 0 THEN (-n + 1) * incy ELSE 0
  IN
  IF m = 0 \/ n = 0 \/ alpha = zero THEN a
  ELSE
    LET res == ForUp(0, n - 1, a, LAMBDA a1, j :
                 LET yj == Rd(y, ky + j * incy) IN
                 IF yj /= zero
                 THEN LET temp == Times(alpha, yj)
                          r == ForUp(0, m - 1, a1, LAMBDA a2, i :
                                 Wr(a2, i + j * lda,
                                    Plus(Rd(a2, i + j * lda),
                                         Times(temp,
                                               Rd(x, kx + i * incx)))))
                      IN  r
                 ELSE a1)
    IN  res

\* src/src/cpp/dsymm.cpp (dgbmv); trans is 0 for 'N'
dgbmv(trans, m, n, kl, ku, alpha, a, lda, x, incx, beta, y, incy) ==
  LET lenx == IF trans = 0 THEN n ELSE m
      leny == IF trans = 0 THEN m ELSE n
      kx0 == IF incx > 0 THEN 0 ELSE -(lenx - 1) * incx
      ky0 == IF incy > 0 THEN 0 ELSE -(leny - 1) * incy
      \* First form y := beta*y
      ys == IF beta /= one
            THEN ForUp(0, leny - 1, y, LAMBDA y1, i :
                   LET iy == IF incy = 1 THEN i ELSE ky0 + i * incy
                   IN  Wr(y1, iy, IF beta = zero THEN zero
                                  ELSE Times(beta, Rd(y1, iy))))
            ELSE y
      kup1 == ku + 1
      k(j) == kup1 - 1 - j
      i_start(j) == Max(0, j - ku)
      i_end(j) == Min(m - 1, j + kl)
  IN
  IF m = 0 \/ n = 0 \/ (alpha = zero /\ beta = one) THEN y
  ELSE IF alpha = zero THEN ys
  ELSE IF trans = 0 THEN
    IF incy = 1 THEN
      LET res == ForUp(0, n - 1, ys, LAMBDA y1, j :
                   LET temp == Times(alpha, Rd(x, kx0 + j * incx))
                       r == ForUp(i_start(j), i_end(j), y1, LAMBDA y2, i :
                              Wr(y2, i, Plus(Rd(y2, i),
                                   Times(temp,
                                         Rd(a, (k(j) + i) + j * lda)))))
                   IN  r)
      IN  res
    ELSE
      LET res == ForUp(0, n - 1, [y |-> ys, ky |-> ky0], LAMBDA s, j :
                   LET temp == Times(alpha, Rd(x, kx0 + j * incx))
                       r == ForUp(i_start(j), i_end(j), s.y, LAMBDA y2, i :
                              LET iy == s.ky + (i - i_start(j)) * incy
                              IN  Wr(y2, iy, Plus(Rd(y2, iy),
                                       Times(temp,
                                             Rd(a, (k(j) + i) + j * lda)))))
                   IN  [y |-> r,
                        ky |-> IF j >= ku THEN s.ky + incy ELSE s.ky])
      IN  res.y
  ELSE
    IF incx = 1 THEN
      LET res == ForUp(0, n - 1, ys, LAMBDA y1, j :
                   LET temp == ForUp(i_start(j), i_end(j), zero,
                                 LAMBDA t, i :
                                   Plus(t, Times(Rd(a, (k(j) + i) + j * lda),
                                                 Rd(x, i))))
                       jy == ky0 + j * incy
                   IN  Wr(y1, jy, Plus(Rd(y1, jy), Times(alpha, temp))))
      IN  res
    ELSE
      LET res == ForUp(0, n - 1, [y |-> ys, kx |-> kx0], LAMBDA s, j :
                   LET temp == ForUp(i_start(j), i_end(j), zero,
                                 LAMBDA t, i :
                                   Plus(t, Times(Rd(a, (k(j) + i) + j * lda),
                                         Rd(x, s.kx + (i - i_start(j)) * incx))))
                       jy == ky0 + j * incy
                   IN  [y |-> Wr(s.y, jy, Plus(Rd(s.y, jy),
                                               Times(alpha, temp))),
                        kx |-> IF j >= ku THEN s.kx + incx ELSE s.kx])
      IN  res.y

\* |a|
AbsR(a) == IF Less(a, zero) THEN Neg(a) ELSE a

\* the larger of two doubles
MaxR(a, b) == IF Less(a, b) THEN b ELSE a

IsSquare(k) == k >= 0 /\ \E r \in 0..k : r * r = k

ISqrt(k) == CHOOSE r \in 0..k : r * r = k

\* a double whose square root is a rational
HasSqrt(v) == ~IsNaN(v) /\ IsSquare(v[1]) /\ IsSquare(v[2])

\* std::sqrt on the doubles that have an exact root; the callers draw
\* no other
Sqrt(v) == IF HasSqrt(v) THEN <<ISqrt(v[1]), ISqrt(v[2])>> ELSE NaN

\* src/src/cpp/drotg.cpp: min(safmax, max(safmin, v)) with safmin = 2^-1022
\* and safmax = 2^1023; every magnitude drawn lies between the two, where
\* the clamp returns v
ClampScl(v) == v

\* src/src/cpp/drotg.cpp: z is always the sine
RotgZ_sine(anorm, bnorm, c, s) == s

\* src/src/cpp/drotg.cpp: if (anorm > bnorm) z = *s; else if (*c != zero)
\* z = one / *c; else z = one
RotgZ(anorm, bnorm, c, s) ==
  IF Less(bnorm, anorm) THEN s
  ELSE IF c /= zero THEN Over(one, c)
  ELSE one

\* src/src/cpp/drotg.cpp; the result is the four cells on return
drotg(a, b) ==
  LET anorm == AbsR(a)
      bnorm == AbsR(b)
  IN
  IF bnorm = zero THEN [a |-> a, b |-> zero, c |-> one, s |-> zero]
  ELSE IF anorm = zero THEN [a |-> b, b |-> one, c |-> zero, s |-> one]
  ELSE
    LET scl == ClampScl(MaxR(anorm, bnorm))
        sigma == IF Less(bnorm, anorm)
                 THEN (IF ~Less(a, zero) THEN one ELSE Neg(one))
                 ELSE (IF ~Less(b, zero) THEN one ELSE Neg(one))
        r == Times(sigma,
               Times(scl, Sqrt(Plus(Times(Over(a, scl), Over(a, scl)),
                                    Times(Over(b, scl), Over(b, scl))))))
        c == Over(a, r)
        s == Over(b, r)
        z == RotgZ(anorm, bnorm, c, s)
    IN  [a |-> r, b |-> z, c |-> c, s |-> s]

---------------------------------------------------------------------------
(* Doubles with their exponent range: q * Gam^e with a rational q, and the *)
(* two infinities.  The mantissa is kept exact.                            *)

\* src/unnamed/part_010: gam = 4096.0 = 2^12
Gam == 4096

\* the largest finite double is below 2^1024 = DblMaxMant * Gam^DblMaxExp
DblMaxExp == 85

DblMaxMant == 16

\* a magnitude below 2^-1075 = DblMinMant * Gam^DblMinExp rounds to 0
DblMinExp == -90

DblMinMant == 32

\* a summand more than Gam^AbsorbExp = 2^72 times smaller than the other
\* is lost in the 53 bit sum
AbsorbExp == 6

Dbl(q, e) == [q |-> q, e |-> e]

DZero == Dbl(zero, 0)

DOne == Dbl(one, 0)

DInf(sign) == Dbl(<<sign, 0>>, 0)

DNaN == Dbl(NaN, 0)

DIsNaN(v) == v.q = NaN

DIsInf(v) == v.q[2] = 0 /\ v.q[1] /= 0

Sgn(v) == IF v.q[1] > 0 THEN 1 ELSE IF v.q[1] < 0 THEN -1 ELSE 0

\* the mantissa brought into [1, Gam)
RECURSIVE Norm(_)
Norm(v) ==
  IF v.q[2] = 0 THEN Dbl(v.q, 0)
  ELSE IF v.q[1] = 0 THEN DZero
  ELSE IF Abs(v.q[1]) \div v.q[2] >= Gam
       THEN Norm(Dbl(Over(v.q, R(Gam)), v.e + 1))
  ELSE IF Abs(v.q[1]) < v.q[2]
       THEN Norm(Dbl(Times(v.q, R(Gam)), v.e - 1))
  ELSE v

\* overflow to an infinity, underflow to zero
Round(v) ==
  LET w == Norm(v)
      mag == AbsR(w.q)
  IN  IF w.q[2] = 0 \/ w.q[1] = 0 THEN w
      ELSE IF w.e > DblMaxExp
              \/ (w.e = DblMaxExp /\ ~Less(mag, R(DblMaxMant)))
           THEN DInf(Sgn(w))
      ELSE IF w.e < DblMinExp
              \/ (w.e = DblMinExp /\ Less(mag, R(DblMinMant)))
           THEN DZero
      ELSE w

DNeg(v) == IF DIsNaN(v) THEN v ELSE Dbl(<<-v.q[1], v.q[2]>>, v.e)

DAbs(v) == IF Sgn(v) < 0 THEN DNeg(v) ELSE v

DTimes(a, b) ==
  IF DIsNaN(a) \/ DIsNaN(b) THEN DNaN
  ELSE IF DIsInf(a) \/ DIsInf(b)
       THEN (IF Sgn(a) = 0 \/ Sgn(b) = 0 THEN DNaN
             ELSE DInf(Sgn(a) * Sgn(b)))
  ELSE Round(Dbl(Times(a.q, b.q), a.e + b.e))

DOver(a, b) ==
  IF DIsNaN(a) \/ DIsNaN(b) THEN DNaN
  ELSE IF DIsInf(a)
       THEN (IF DIsInf(b) THEN DNaN
             ELSE DInf(Sgn(a) * (IF Sgn(b) < 0 THEN -1 ELSE 1)))
  ELSE IF DIsInf(b) THEN DZero
  ELSE IF Sgn(b) = 0
       THEN (IF Sgn(a) = 0 THEN DNaN ELSE DInf(Sgn(a)))
  ELSE Round(Dbl(Over(a.q, b.q), a.e - b.e))

RECURSIVE GamTo(_)
GamTo(k) == IF k = 0 THEN 1 ELSE Gam * GamTo(k - 1)

DPlus(a, b) ==
  IF DIsNaN(a) \/ DIsNaN(b) THEN DNaN
  ELSE IF DIsInf(a)
       THEN (IF DIsInf(b) /\ Sgn(a) /= Sgn(b) THEN DNaN ELSE a)
  ELSE IF DIsInf(b) THEN b
  ELSE IF Sgn(a) = 0 THEN b
  ELSE IF Sgn(b) = 0 THEN a
  ELSE IF a.e - b.e >= AbsorbExp THEN a
  ELSE IF b.e - a.e >= AbsorbExp THEN b
  ELSE IF a.e >= b.e
       THEN Round(Dbl(Plus(Times(a.q, R(GamTo(a.e - b.e))), b.q), b.e))
  ELSE Round(Dbl(Plus(a.q, Times(b.q, R(GamTo(b.e - a.e)))), a.e))

DMinus(a, b) == DPlus(a, DNeg(b))

\* |a| < |b| for two finite doubles other than zero
MagLess(a, b) ==
  a.e < b.e \/ (a.e = b.e /\ Less(AbsR(a.q), AbsR(b.q)))

\* a < b; false when either is not a number
DLess(a, b) ==
  IF DIsNaN(a) \/ DIsNaN(b) THEN FALSE
  ELSE IF Sgn(a) /= Sgn(b) THEN Sgn(a) < Sgn(b)
  ELSE IF Sgn(a) = 0 THEN FALSE
  ELSE IF DIsInf(a) \/ DIsInf(b)
       THEN (IF Sgn(a) > 0 THEN ~DIsInf(a) ELSE ~DIsInf(b))
  ELSE IF Sgn(a) > 0 THEN MagLess(a, b)
  ELSE MagLess(b, a)

\* a <= b
DLeq(a, b) == ~DIsNaN(a) /\ ~DIsNaN(b) /\ ~DLess(b, a)

DFinite(v) == ~DIsNaN(v) /\ ~DIsInf(v)

---------------------------------------------------------------------------
(* drotmg: the modified Givens transformation.                             *)

\* src/unnamed/part_010: gamsq = 16777216.0 = 2^24
gamsq == Dbl(one, 2)

\* src/unnamed/part_010: rgamsq = 5.9604645e-8, the double next to 2^-24;
\* no value drawn lies between the two
rgamsq == Dbl(one, -2)

gam == Dbl(one, 1)

\* Go zero-H-D-and-DX1
ZeroHDX(s) ==
  [s EXCEPT !.flag = DNeg(DOne), !.h11 = DZero, !.h12 = DZero,
            !.h21 = DZero, !.h22 = DZero,
            !.dd1 = DZero, !.dd2 = DZero, !.dx1 = DZero]

\* Set parameter array based on flag
SetParam(s) ==
  LET p == s.param
      p1 == IF DLess(s.flag, DZero)
            THEN [p EXCEPT ![1] = s.h11, ![2] = s.h21, ![3] = s.h12,
                           ![4] = s.h22]
            ELSE IF s.flag = DZero
                 THEN [p EXCEPT ![2] = s.h21, ![3] = s.h12]
            ELSE [p EXCEPT ![1] = s.h11, ![4] = s.h22]
  IN  [s EXCEPT !.param = [p1 EXCEPT ![0] = s.flag]]

\* src/unnamed/part_010 (drotmg), from the entry to the scale check; pc
\* tells where the kernel stands: returned, or in one of the two loops
RotmgDd2Check(s) ==
  IF s.dd2 /= DZero THEN [pc |-> "drotmg_while2", s |-> s]
  ELSE [pc |-> "drotmg", s |-> SetParam(s)]

RotmgDd1Check(s) ==
  IF s.dd1 /= DZero THEN [pc |-> "drotmg_while1", s |-> s]
  ELSE RotmgDd2Check(s)

RotmgEnter(s) ==
  IF DLess(s.dd1, DZero) THEN [pc |-> "drotmg", s |-> SetParam(ZeroHDX(s))]
  ELSE
    LET dp2 == DTimes(s.dd2, s.dy1) IN
    IF dp2 = DZero
    THEN [pc |-> "drotmg",
          s |-> [s EXCEPT !.flag = DNeg(Dbl(R(2), 0)),
                          !.param[0] = DNeg(Dbl(R(2), 0))]]
    ELSE
      LET dp1 == DTimes(s.dd1, s.dx1)
          dq2 == DTimes(dp2, s.dy1)
          dq1 == DTimes(dp1, s.dx1)
      IN
      IF DLess(DAbs(dq2), DAbs(dq1)) THEN
        LET dh21 == DOver(DNeg(s.dy1), s.dx1)
            dh12 == DOver(dp2, dp1)
            du == DMinus(DOne, DTimes(dh12, dh21))
            t == [s EXCEPT !.h21 = dh21, !.h12 = dh12]
        IN  IF DLess(DZero, du)
            THEN RotmgDd1Check([t EXCEPT !.flag = DZero,
                                         !.dd1 = DOver(s.dd1, du),
                                         !.dd2 = DOver(s.dd2, du),
                                         !.dx1 = DTimes(s.dx1, du)])
            ELSE RotmgDd1Check(ZeroHDX(t))
      ELSE
        IF DLess(dq2, DZero) THEN RotmgDd1Check(ZeroHDX(s))
        ELSE
          LET dh11 == DOver(dp1, dp2)
              dh22 == DOver(s.dx1, s.dy1)
              du == DPlus(DOne, DTimes(dh11, dh22))
              dtemp == DOver(s.dd2, du)
          IN  RotmgDd1Check([s EXCEPT !.flag = DOne, !.h11 = dh11,
                                      !.h22 = dh22,
                                      !.dd2 = DOver(s.dd1, du),
                                      !.dd1 = dtemp,
                                      !.dx1 = DTimes(s.dy1, du)])

\* the first statement of both loop bodies
RotmgReflag(s) ==
  IF s.flag = DZero
  THEN [s EXCEPT !.h11 = DOne, !.h22 = DOne, !.flag = DNeg(DOne)]
  ELSE [s EXCEPT !.h21 = DNeg(DOne), !.h12 = DOne, !.flag = DNeg(DOne)]

\* while ((*dd1 <= rgamsq) || (*dd1 >= gamsq))
RotmgWhile1(s) == DLeq(s.dd1, rgamsq) \/ DLeq(gamsq, s.dd1)

\* one pass through the body of the loop on dd1
RotmgBody1(s) ==
  LET t == RotmgReflag(s) IN
  IF DLeq(t.dd1, rgamsq)
  THEN [t EXCEPT !.dd1 = DTimes(t.dd1, gamsq), !.dx1 = DOver(t.dx1, gam),
                 !.h11 = DOver(t.h11, gam), !.h12 = DOver(t.h12, gam)]
  ELSE [t EXCEPT !.dd1 = DOver(t.dd1, gamsq), !.dx1 = DTimes(t.dx1, gam),
                 !.h11 = DTimes(t.h11, gam), !.h12 = DTimes(t.h12, gam)]

\* while ((std::abs(*dd2) <= rgamsq) || (std::abs(*dd2) >= gamsq))
RotmgWhile2(s) == DLeq(DAbs(s.dd2), rgamsq) \/ DLeq(gamsq, DAbs(s.dd2))

\* one pass through the body of the loop on dd2
RotmgBody2(s) ==
  LET t == RotmgReflag(s) IN
  IF DLeq(DAbs(t.dd2), rgamsq)
  THEN [t EXCEPT !.dd2 = DTimes(t.dd2, gamsq),
                 !.h21 = DOver(t.h21, gam), !.h22 = DOver(t.h22, gam)]
  ELSE [t EXCEPT !.dd2 = DOver(t.dd2, gamsq),
                 !.h21 = DTimes(t.h21, gam), !.h22 = DTimes(t.h22, gam)]

DasumQuickResult_count(n, incx) == R(n)

\* src/src/cpp/dtpmv.cpp (dasum): return 0.0
DasumQuickResult(n, incx) == zero

\* src/src/cpp/dtpmv.cpp (dasum); val is the value returned and reads the
\* set of indexes of x the kernel has loaded
dasum(n, x, incx) ==
  LET \* dtemp = dtemp + std::abs(x[i])
      Add(s, i) == [val |-> Plus(s.val, AbsR(Rd(x, i))),
                    reads |-> s.reads \cup {i}]
      s0 == [val |-> zero, reads |-> {}]
  IN
  IF n <= 0 \/ incx <= 0
  THEN [val |-> DasumQuickResult(n, incx), reads |-> {}]
  ELSE IF incx = 1 THEN
    LET m == n % 6
        clean == ForUp(0, m - 1, s0, Add)
    IN  IF m /= 0 /\ n < 6 THEN clean
        ELSE
          LET res == ForUp(0, ((n - m) \div 6) - 1, clean, LAMBDA s, q :
                       LET i == m + 6 * q
                           \* the six terms are added to dtemp from the left
                           r == ForUp(i, i + 5, s, Add)
                       IN  r)
          IN  res
  ELSE
    LET res == ForUp(0, n - 1, s0, LAMBDA s, q : Add(s, q * incx))
    IN  res

---------------------------------------------------------------------------
(* The caller.                                                             *)

\* what a load outside the buffers of a call may return
HeapVals == {zero, R(5)}

\* the trans letters a wrapper passes ('N', 'T', 'C')
CharC == 67
TransChars == {CharN, CharT, CharC}

Init ==
  /\ call = "idle"
  /\ inp = <<>>
  /\ out = <<>>
  /\ heap \in HeapVals

\* the positions inside drotmg at which the kernel has not returned
Running == {"drotmg_while1", "drotmg_while2"}

\* the call returns and the caller is free to make the next one
Return ==
  /\ call /= "idle"
  /\ call \notin Running
  /\ call' = "idle"
  /\ inp' = <<>>
  /\ out' = <<>>
  /\ UNCHANGED heap

\* the arguments of a dgemv call: an m x n matrix with leading dimension
\* lda >= max(1, m), and vectors of the lengths op(A) requires
GemvArgs(notran, trans, m, n, alpha, beta, incx, incy, seed) ==
  LET lenx == IF notran THEN n ELSE m
      leny == IF notran THEN m ELSE n
      lda == Max(1, m) + (seed % 2)
  IN  [trans |-> trans, notran |-> notran, m |-> m, n |-> n,
       lenx |-> lenx, leny |-> leny, alpha |-> alpha, beta |-> beta,
       a |-> GenBuf(seed, 0, lda * n), lda |-> lda,
       x |-> GenBuf(seed, 3, VecLen(lenx, incx)), incx |-> incx,
       y |-> GenBuf(seed, 5, VecLen(leny, incy)), incy |-> incy]

\* dgemv.ts passes trans.charCodeAt(0) to the kernel of dgemv.cpp
CallDgemv ==
  /\ call = "idle"
  /\ \E trans \in TransChars, m \in 1..MaxN, n \in 1..MaxN,
        alpha \in Scalars, beta \in Scalars,
        incx \in Incs, incy \in Incs, seed \in Seeds :
       LET g == GemvArgs(trans = CharN, trans, m, n, alpha, beta,
                         incx, incy, seed)
       IN  /\ call' = "dgemv"
           /\ inp' = g
           /\ out' = [y |-> dgemv(trans, m, n, alpha, g.a, g.lda, g.x, incx,
                                  beta, g.y, incy)]
  /\ UNCHANGED heap

\* the kernel of dtrmv.cpp, called with its own encoding of trans
CallDgemvInt ==
  /\ call = "idle"
  /\ \E trans \in 0..2, m \in 1..MaxN, n \in 1..MaxN,
        alpha \in Scalars, beta \in Scalars,
        incx \in Incs, incy \in Incs, seed \in Seeds :
       LET g == GemvArgs(trans = 0, trans, m, n, alpha, beta,
                         incx, incy, seed)
       IN  /\ call' = "dgemv_int"
           /\ inp' = g
           /\ out' = [y |-> dgemv_int(trans, m, n, alpha, g.a, g.lda, g.x,
                                      incx, beta, g.y, incy)]
  /\ UNCHANGED heap

NextGemv == CallDgemv \/ CallDgemvInt \/ Return

SpecGemv == Init /\ [][NextGemv]_vars

\* element (i, j) of op(A) for a dense column-major A
OpA(notran, a, lda, i, j) ==
  IF notran THEN a[i + j * lda] ELSE a[j + i * lda]

\* alpha * (sum over j of op(A)[i,j] * x[j]) + beta * y_old[i] for the
\* arguments g of a dgemv call
GemvExpected(g, i) ==
  Plus(Times(g.alpha,
             Sum(0, g.lenx - 1, LAMBDA j :
                   Times(OpA(g.notran, g.a, g.lda, i, j),
                         g.x[Pos(j, g.lenx, g.incx)]))),
       Times(g.beta, g.y[Pos(i, g.leny, g.incy)]))

\* C1: after every dgemv call (trans N, T or C, m, n >= 1, any alpha and
\* beta, nonzero incx and incy) each logical element i of y equals
\* alpha * (sum over j of op(A)[i,j] * x[j]) + beta * y_old[i].
C1_DgemvComputes ==
  call = "dgemv" =>
    \A i \in 0..(inp.leny - 1) :
      out.y[Pos(i, inp.leny, inp.incy)] = GemvExpected(inp, i)

\* the same statement for the kernel of dtrmv.cpp
DgemvIntComputes ==
  call = "dgemv_int" =>
    \A i \in 0..(inp.leny - 1) :
      out.y[Pos(i, inp.leny, inp.incy)] = GemvExpected(inp, i)

---------------------------------------------------------------------------
(* Matrices in the three storage formats.                                  *)

\* (i, j) lies in the stored triangle
InTri(upper, i, j) == IF upper THEN i <= j ELSE i >= j

\* element (i, j) of the stored triangle of the logical matrix; the
\* diagonal is nonzero, so that a triangular matrix is invertible
TriElem(seed, i, j) ==
  LET v == Gen(seed, i + 5 * j + 1)
  IN  IF i = j /\ v = zero THEN R(2) ELSE v

\* what a caller leaves in storage the routine must not reference
Junk(seed, p) == Gen(seed, p + 2)

\* dense column-major storage, element (i, j) at i + j*lda: the stored
\* triangle holds the logical matrix, which is zero outside bandwidth k
DenseTri(seed, upper, n, k, lda) ==
  [p \in 0..(lda * n - 1) |->
     LET i == p % lda
         j == p \div lda
     IN  IF i < n /\ InTri(upper, i, j)
         THEN IF Abs(i - j) <= k THEN TriElem(seed, i, j) ELSE zero
         ELSE Junk(seed, p)]

\* band storage with k+1 diagonals in rows 0..k of each column: element
\* (i, j) of an upper triangle in row k + i - j of column j, of a lower
\* triangle in row i - j
BandTri(seed, upper, n, k, lda) ==
  [p \in 0..(lda * n - 1) |->
     LET r == p % lda
         j == p \div lda
         i == IF upper THEN r + j - k ELSE r + j
     IN  IF r <= k /\ i >= 0 /\ i < n
         THEN TriElem(seed, i, j)
         ELSE Junk(seed, p)]

\* offset of element (i, j) of the stored triangle in packed storage, the
\* triangle laid out column by column without padding
PackedIndex(upper, n, i, j) ==
  IF upper THEN i + (j * (j + 1)) \div 2
  ELSE (i - j) + j * n - (j * (j - 1)) \div 2

PackedTri(seed, upper, n) ==
  [p \in 0..((n * (n + 1)) \div 2 - 1) |->
     LET ij == CHOOSE q \in (0..(n - 1)) \X (0..(n - 1)) :
                 InTri(upper, q[1], q[2])
                 /\ PackedIndex(upper, n, q[1], q[2]) = p
     IN  TriElem(seed, ij[1], ij[2])]

\* the mode arguments of a caller, in the encoding of the integer kernels
\* (0 = upper, not transposed, non-unit) and of the character kernels
UploInt(upper) == IF upper THEN 0 ELSE 1
UploChar(upper) == IF upper THEN CharU ELSE CharL
TransInt(notrans) == IF notrans THEN 0 ELSE 1
TransChar(notrans) == IF notrans THEN CharN ELSE CharT
DiagInt(unitdiag) == IF unitdiag THEN 1 ELSE 0
DiagChar(unitdiag) == IF unitdiag THEN CharU ELSE CharN

---------------------------------------------------------------------------
(* Band routines against their dense counterparts.                         *)

\* dsbmv on the band form and dsymv on the dense form of one matrix
CompareSbmv ==
  /\ call = "idle"
  /\ \E upper \in BOOLEAN, n \in 1..MaxN, k \in 0..MaxK,
        alpha \in Scalars, beta \in Scalars,
        incx \in Incs, incy \in Incs, seed \in Seeds :
       LET ldab == k + 1 + (seed % 2)
           lda == n + (seed % 2)
           ab == BandTri(seed, upper, n, k, ldab)
           a == DenseTri(seed, upper, n, k, lda)
           x == GenBuf(seed, 3, VecLen(n, incx))
           y == GenBuf(seed, 5, VecLen(n, incy))
       IN  /\ call' = "dsbmv"
           /\ inp' = [upper |-> upper, n |-> n, k |-> k, alpha |-> alpha,
                      beta |-> beta, ab |-> ab, ldab |-> ldab, a |-> a,
                      lda |-> lda, x |-> x, incx |-> incx, y |-> y,
                      incy |-> incy]
           /\ out' = [band |-> dsbmv(UploInt(upper), n, k, alpha, ab, ldab,
                                     x, incx, beta, y, incy),
                      dense |-> dsymv(UploChar(upper), n, alpha, a, lda,
                                      x, incx, beta, y, incy)]
  /\ UNCHANGED heap

\* the arguments of a triangular band call and of its dense counterpart
TbArgs(upper, notrans, unitdiag, n, k, incx, seed) ==
  LET ldab == k + 1 + (seed % 2)
      lda == n + (seed % 2)
  IN  [upper |-> upper, notrans |-> notrans, unitdiag |-> unitdiag,
       n |-> n, k |-> k, ab |-> BandTri(seed, upper, n, k, ldab),
       ldab |-> ldab, a |-> DenseTri(seed, upper, n, k, lda), lda |-> lda,
       x |-> GenBuf(seed, 3, VecLen(n, incx)), incx |-> incx]

\* dtbmv on the band form and dtrmv on the dense form of one matrix
CompareTbmv ==
  /\ call = "idle"
  /\ \E upper \in BOOLEAN, notrans \in BOOLEAN, unitdiag \in BOOLEAN,
        n \in 1..MaxN, k \in 0..MaxK, incx \in Incs, seed \in Seeds :
       LET g == TbArgs(upper, notrans, unitdiag, n, k, incx, seed)
       IN  /\ call' = "dtbmv"
           /\ inp' = g
           /\ out' = [band |-> dtbmv(UploInt(upper), TransInt(notrans),
                                     DiagInt(unitdiag), n, k, g.ab, g.ldab,
                                     g.x, incx),
                      dense |-> dtrmv(UploChar(upper), TransChar(notrans),
                                      DiagChar(unitdiag), n, g.a, g.lda,
                                      g.x, incx)]
  /\ UNCHANGED heap

\* dtbsv on the band form and dtrsv on the dense form of one matrix
CompareTbsv ==
  /\ call = "idle"
  /\ \E upper \in BOOLEAN, notrans \in BOOLEAN, unitdiag \in BOOLEAN,
        n \in 1..MaxN, k \in 0..MaxK, incx \in Incs, seed \in Seeds :
       LET g == TbArgs(upper, notrans, unitdiag, n, k, incx, seed)
       IN  /\ call' = "dtbsv"
           /\ inp' = g
           /\ out' = [band |-> dtbsv(UploInt(upper), TransInt(notrans),
                                     DiagInt(unitdiag), n, k, g.ab, g.ldab,
                                     g.x, incx),
                      dense |-> dtrsv(UploChar(upper), TransChar(notrans),
                                      DiagChar(unitdiag), n, g.a, g.lda,
                                      g.x, incx)]
  /\ UNCHANGED heap

NextBand == CompareSbmv \/ CompareTbmv \/ CompareTbsv \/ Return

SpecBand == Init /\ [][NextBand]_vars

BandCalls == {"dsbmv", "dtbmv", "dtbsv"}

\* C2: for n >= 1, any bandwidth k >= 0, both uplo values and all trans
\* and diag modes, dsbmv, dtbmv and dtbsv on a matrix in band layout leave
\* the same output vector as dsymv, dtrmv and dtrsv on the same logical
\* matrix stored densely.
C2_BandMatchesDense ==
  call \in BandCalls => out.band = out.dense

\* the same statement for upper triangles only
BandUpperMatchesDense ==
  (call \in BandCalls /\ inp.upper) => out.band = out.dense

\* the same statement for lower triangles of bandwidth 0 only
BandDiagonalMatchesDense ==
  (call \in BandCalls /\ ~inp.upper /\ inp.k = 0) => out.band = out.dense

---------------------------------------------------------------------------
(* Triangular solve followed by triangular multiply.                       *)

\* dtrsv solves op(A)*x = b in place, then dtrmv multiplies the solution
\* by the same op(A)
SolveThenMultiply ==
  /\ call = "idle"
  /\ \E upper \in BOOLEAN, notrans \in BOOLEAN, unitdiag \in BOOLEAN,
        n \in 1..MaxN, incx \in Incs, seed \in Seeds :
       LET lda == n + (seed % 2)
           a == DenseTri(seed, upper, n, n, lda)
           b == GenBuf(seed, 3, VecLen(n, incx))
           x == dtrsv(UploChar(upper), TransChar(notrans),
                      DiagChar(unitdiag), n, a, lda, b, incx)
       IN  /\ call' = "dtrsv_dtrmv"
           /\ inp' = [upper |-> upper, notrans |-> notrans,
                      unitdiag |-> unitdiag, n |-> n, a |-> a, lda |-> lda,
                      b |-> b, incx |-> incx]
           /\ out' = [x |-> x,
                      b |-> dtrmv(UploChar(upper), TransChar(notrans),
                                  DiagChar(unitdiag), n, a, lda, x, incx)]
  /\ UNCHANGED heap

NextTrsv == SolveThenMultiply \/ Return

SpecTrsv == Init /\ [][NextTrsv]_vars

\* C3: for every uplo, trans, diag, n >= 1 and nonzero incx, dtrsv
\* followed by dtrmv with the same arguments reproduces the right-hand
\* side b in every logical element.
C3_SolveThenMultiplyRestores ==
  call = "dtrsv_dtrmv" =>
    \A i \in 0..(inp.n - 1) :
      out.b[Pos(i, inp.n, inp.incx)] = inp.b[Pos(i, inp.n, inp.incx)]

\* the same statement outside the strided lower-transposed branch of dtrsv
SolveThenMultiplyRestoresElsewhere ==
  (call = "dtrsv_dtrmv" /\ (inp.upper \/ inp.notrans \/ inp.incx = 1)) =>
    \A i \in 0..(inp.n - 1) :
      out.b[Pos(i, inp.n, inp.incx)] = inp.b[Pos(i, inp.n, inp.incx)]

---------------------------------------------------------------------------
(* daxpby calls.                                                           *)

\* daxpby.ts passes its arguments through; it returns early for n = 0
CallDaxpby ==
  /\ call = "idle"
  /\ \E n \in 1..MaxN, alpha \in Scalars, beta \in Scalars,
        incx \in Incs, incy \in Incs, seed \in Seeds :
       LET x == GenBuf(seed, 3, VecLen(n, incx))
           y == GenBuf(seed, 5, VecLen(n, incy))
       IN  /\ call' = "daxpby"
           /\ inp' = [n |-> n, alpha |-> alpha, beta |-> beta, x |-> x,
                      incx |-> incx, y |-> y, incy |-> incy]
           /\ out' = [y |-> daxpby(n, alpha, x, incx, beta, y, incy)]
  /\ UNCHANGED heap

NextAxpby == CallDaxpby \/ Return

SpecAxpby == Init /\ [][NextAxpby]_vars

\* the offsets of the n logical elements of a vector
LogicalPos(n, inc) == {Pos(i, n, inc) : i \in 0..(n - 1)}

\* C4: for n > 0 and alpha = 0, daxpby leaves beta * y_old in each of the
\* n logical elements of y, for every beta and every nonzero incy of
\* either sign, and leaves every other element of y unchanged.
C4_DaxpbyAlphaZeroScales ==
  (call = "daxpby" /\ inp.alpha = zero) =>
    \A p \in DOMAIN inp.y :
      out.y[p] = IF p \in LogicalPos(inp.n, inp.incy)
                 THEN Times(inp.beta, inp.y[p])
                 ELSE inp.y[p]

\* the same statement for positive incy only
DaxpbyAlphaZeroScalesForward ==
  (call = "daxpby" /\ inp.alpha = zero /\ inp.incy > 0) =>
    \A p \in DOMAIN inp.y :
      out.y[p] = IF p \in LogicalPos(inp.n, inp.incy)
                 THEN Times(inp.beta, inp.y[p])
                 ELSE inp.y[p]

---------------------------------------------------------------------------
(* Mode arguments at the call sites of the wrappers.                       *)
(* A wrapper passes each mode either as the character code of the enum     *)
(* value ("char": uplo.charCodeAt(0)) or as a small integer ("int":        *)
(* Upper ? 0 : 1, NoTranspose ? 0 : Transpose ? 1 : 2, NonUnit ? 0 : 1;    *)
(* "int01": the same with NoTranspose ? 0 : 1); a kernel tests the value   *)
(* either against letters ("char") or against 0 ("int").                   *)

\* the enum values of src/src/types.ts
Modes ==
  [uplo |-> {"Upper", "Lower"},
   trans |-> {"NoTranspose", "Transpose", "ConjugateTranspose"},
   diag |-> {"NonUnit", "Unit"},
   side |-> {"Left", "Right"}]

\* value.charCodeAt(0)
CharOf(kind, v) ==
  CASE v = "Upper" -> CharU
    [] v = "Lower" -> CharL
    [] v = "NoTranspose" -> CharN
    [] v = "Transpose" -> CharT
    [] v = "ConjugateTranspose" -> CharC
    [] v = "NonUnit" -> CharN
    [] v = "Unit" -> CharU
    [] v = "Left" -> CharL
    [] v = "Right" -> CharR

\* the value a wrapper with encoding enc passes for mode v
Encode(enc, kind, v) ==
  IF enc = "char" \/ kind = "side" THEN CharOf(kind, v)
  ELSE CASE kind = "uplo" -> IF v = "Upper" THEN 0 ELSE 1
         [] kind = "diag" -> IF v = "NonUnit" THEN 0 ELSE 1
         [] kind = "trans" ->
              IF v = "NoTranspose" THEN 0
              ELSE IF enc = "int01" \/ v = "Transpose" THEN 1 ELSE 2

\* what a kernel with decoding dec makes of the value: TRUE for upper,
\* not transposed, non-unit, left
Decode(dec, kind, code) ==
  IF dec = "int" THEN code = 0
  ELSE CASE kind = "uplo" -> code \in {CharU, Charu}
         [] kind = "trans" -> code \in {CharN, Charn}
         [] kind = "diag" -> code \in {CharN, Charn}
         [] kind = "side" -> code \in {CharL, Charl}

\* the mode the caller selected, in the same terms
Selected(kind, v) == v \in {"Upper", "NoTranspose", "NonUnit", "Left"}

\* how each kernel tests its mode arguments
dec_dgbmv == "int"
dec_dgemm == "char"
dec_dgemmtr == "int"
dec_dgemv == "char"
dec_dsbmv == "int"
dec_dspmv == "int"
dec_dspr2 == "int"
dec_dsymm == "char"
dec_dsyr == "char"
dec_dspr == "int"
dec_dsyr2 == "char"
dec_dsyr2k == "char"
dec_dsyrk == "char"
dec_dsymv == "char"
dec_dtbmv == "int"
dec_dtbsv == "int"
dec_dtrmm == "char"
dec_dtrmv == "char"
dec_dtrsm == "char"
dec_dtrsv == "char"
dec_dtpmv == "int"
dec_dtpsv == "int"

\* the call sites: wrapper, kernel called, encoding used, modes passed
dgbmv_ts ==
  [site |-> "dgbmv_ts", kernel |-> "dgbmv", enc |-> "int", dec |-> dec_dgbmv,
   args |-> {"trans"}]
dgemm_ts ==
  [site |-> "dgemm_ts", kernel |-> "dgemm", enc |-> "char", dec |-> dec_dgemm,
   args |-> {"trans"}]
dgemmtr_ts ==
  [site |-> "dgemmtr_ts", kernel |-> "dgemmtr", enc |-> "int", dec |-> dec_dgemmtr,
   args |-> {"uplo", "trans"}]
dgemv_ts ==
  [site |-> "dgemv_ts", kernel |-> "dgemv", enc |-> "char", dec |-> dec_dgemv,
   args |-> {"trans"}]
dsbmv_ts ==
  [site |-> "dsbmv_ts", kernel |-> "dsbmv", enc |-> "int", dec |-> dec_dsbmv,
   args |-> {"uplo"}]
dsbmv_part_005 ==
  [site |-> "dsbmv_part_005", kernel |-> "dsbmv", enc |-> "int", dec |-> dec_dsbmv,
   args |-> {"uplo"}]
dspmv_ts_60 ==
  [site |-> "dspmv_ts_60", kernel |-> "dspmv", enc |-> "int", dec |-> dec_dspmv,
   args |-> {"uplo"}]
dspmv_ts_174 ==
  [site |-> "dspmv_ts_174", kernel |-> "dspmv", enc |-> "int", dec |-> dec_dspmv,
   args |-> {"uplo"}]
dspr2_ts_59 ==
  [site |-> "dspr2_ts_59", kernel |-> "dspr2", enc |-> "int", dec |-> dec_dspr2,
   args |-> {"uplo"}]
dspr2_ts_172 ==
  [site |-> "dspr2_ts_172", kernel |-> "dspr2", enc |-> "int", dec |-> dec_dspr2,
   args |-> {"uplo"}]
dsymm_ts ==
  [site |-> "dsymm_ts", kernel |-> "dsymm", enc |-> "char", dec |-> dec_dsymm,
   args |-> {"side", "uplo"}]
dsyr_ts ==
  [site |-> "dsyr_ts", kernel |-> "dsyr", enc |-> "int", dec |-> dec_dsyr,
   args |-> {"uplo"}]
dspr_dsyr_ts ==
  [site |-> "dspr_dsyr_ts", kernel |-> "dspr", enc |-> "int", dec |-> dec_dspr,
   args |-> {"uplo"}]
dspr_part_015 ==
  [site |-> "dspr_part_015", kernel |-> "dspr", enc |-> "int", dec |-> dec_dspr,
   args |-> {"uplo"}]
dsyr2_ts ==
  [site |-> "dsyr2_ts", kernel |-> "dsyr2", enc |-> "char", dec |-> dec_dsyr2,
   args |-> {"uplo"}]
dsyr2_part_014 ==
  [site |-> "dsyr2_part_014", kernel |-> "dsyr2", enc |-> "int", dec |-> dec_dsyr2,
   args |-> {"uplo"}]
dsyr2k_ts ==
  [site |-> "dsyr2k_ts", kernel |-> "dsyr2k", enc |-> "int01", dec |-> dec_dsyr2k,
   args |-> {"uplo", "trans"}]
dsyrk_ts ==
  [site |-> "dsyrk_ts", kernel |-> "dsyrk", enc |-> "int01", dec |-> dec_dsyrk,
   args |-> {"uplo", "trans"}]
dsyrk_part_008 ==
  [site |-> "dsyrk_part_008", kernel |-> "dsyrk", enc |-> "char", dec |-> dec_dsyrk,
   args |-> {"uplo", "trans"}]
dsymv_dsyrk_ts ==
  [site |-> "dsymv_dsyrk_ts", kernel |-> "dsymv", enc |-> "char", dec |-> dec_dsymv,
   args |-> {"uplo"}]
dsymv_part_009 ==
  [site |-> "dsymv_part_009", kernel |-> "dsymv", enc |-> "int", dec |-> dec_dsymv,
   args |-> {"uplo"}]
dtbmv_ts ==
  [site |-> "dtbmv_ts", kernel |-> "dtbmv", enc |-> "int", dec |-> dec_dtbmv,
   args |-> {"uplo", "trans", "diag"}]
dtbsv_ts ==
  [site |-> "dtbsv_ts", kernel |-> "dtbsv", enc |-> "int", dec |-> dec_dtbsv,
   args |-> {"uplo", "trans", "diag"}]
dtrmm_ts ==
  [site |-> "dtrmm_ts", kernel |-> "dtrmm", enc |-> "char", dec |-> dec_dtrmm,
   args |-> {"side", "uplo", "trans", "diag"}]
dtrmv_ts ==
  [site |-> "dtrmv_ts", kernel |-> "dtrmv", enc |-> "char", dec |-> dec_dtrmv,
   args |-> {"uplo", "trans", "diag"}]
dtrmv_part_004 ==
  [site |-> "dtrmv_part_004", kernel |-> "dtrmv", enc |-> "int", dec |-> dec_dtrmv,
   args |-> {"uplo", "trans", "diag"}]
dtrsm_ts ==
  [site |-> "dtrsm_ts", kernel |-> "dtrsm", enc |-> "char", dec |-> dec_dtrsm,
   args |-> {"side", "uplo", "trans", "diag"}]
dtrsv_ts ==
  [site |-> "dtrsv_ts", kernel |-> "dtrsv", enc |-> "int", dec |-> dec_dtrsv,
   args |-> {"uplo", "trans", "diag"}]
dtrsv_part_009 ==
  [site |-> "dtrsv_part_009", kernel |-> "dtrsv", enc |-> "char", dec |-> dec_dtrsv,
   args |-> {"uplo", "trans", "diag"}]
dtpmv_part_002 ==
  [site |-> "dtpmv_part_002", kernel |-> "dtpmv", enc |-> "int", dec |-> dec_dtpmv,
   args |-> {"uplo", "trans", "diag"}]
dtpmv_part_003 ==
  [site |-> "dtpmv_part_003", kernel |-> "dtpmv", enc |-> "int", dec |-> dec_dtpmv,
   args |-> {"uplo", "trans", "diag"}]
dtpsv_part_016 ==
  [site |-> "dtpsv_part_016", kernel |-> "dtpsv", enc |-> "int", dec |-> dec_dtpsv,
   args |-> {"uplo", "trans", "diag"}]

Sites ==
  {dgbmv_ts, dgemm_ts, dgemmtr_ts, dgemv_ts, dsbmv_ts, dsbmv_part_005,
   dspmv_ts_60, dspmv_ts_174, dspr2_ts_59, dspr2_ts_172, dsymm_ts, dsyr_ts,
   dspr_dsyr_ts, dspr_part_015, dsyr2_ts, dsyr2_part_014, dsyr2k_ts,
   dsyrk_ts, dsyrk_part_008, dsymv_dsyrk_ts, dsymv_part_009, dtbmv_ts,
   dtbsv_ts, dtrmm_ts, dtrmv_ts, dtrmv_part_004, dtrsm_ts, dtrsv_ts,
   dtrsv_part_009, dtpmv_part_002, dtpmv_part_003, dtpsv_part_016}

\* a wrapper is called with modes chosen by the caller; it encodes them and
\* the kernel decodes what it receives
CallWrapper ==
  /\ call = "idle"
  /\ \E s \in Sites, uplo \in Modes.uplo, trans \in Modes.trans,
        diag \in Modes.diag, side \in Modes.side :
       LET sel == [uplo |-> uplo, trans |-> trans, diag |-> diag,
                   side |-> side]
       IN  /\ call' = "wrapper"
           /\ inp' = [site |-> s, sel |-> sel]
           /\ out' = [passed |-> [kd \in s.args |->
                                    Encode(s.enc, kd, sel[kd])],
                      decoded |-> [kd \in s.args |->
                                     Decode(s.dec, kd,
                                            Encode(s.enc, kd, sel[kd]))]]
  /\ UNCHANGED heap

NextModes == CallWrapper \/ Return

SpecModes == Init /\ [][NextModes]_vars

\* C5: at every call site each uplo, trans, diag and side value the
\* wrapper passes is decoded by the kernel as the mode the caller selected.
C5_EncodingAgrees ==
  call = "wrapper" =>
    \A kd \in inp.site.args :
      out.decoded[kd] = Selected(kd, inp.sel[kd])

\* the same statement for the call sites whose wrapper and kernel use the
\* same kind of encoding
EncodingAgreesWhereKindsMatch ==
  (call = "wrapper"
     /\ (inp.site.enc = "char") = (inp.site.dec = "char")) =>
    \A kd \in inp.site.args :
      out.decoded[kd] = Selected(kd, inp.sel[kd])

\* the call sites that pass integers to a kernel testing for letters
MismatchedSites ==
  {s.site : s \in {t \in Sites : (t.enc = "char") /= (t.dec = "char")}}

\* exactly seven call sites do so
MismatchedSitesListed ==
  MismatchedSites = {"dsyr_ts", "dsyr2_part_014", "dsyr2k_ts", "dsyrk_ts",
                     "dsymv_part_009", "dtrmv_part_004", "dtrsv_ts"}

---------------------------------------------------------------------------
(* dgemm calls.                                                            *)

\* dgemm.ts passes transa.charCodeAt(0) and transb.charCodeAt(0); A is
\* m x k or k x m, B is k x n or n x k, C is m x n, each with a leading
\* dimension of at least its number of rows
CallDgemm ==
  /\ call = "idle"
  /\ \E transa \in TransChars, transb \in TransChars,
        m \in 1..MaxN, n \in 1..MaxN, k \in 0..MaxN,
        alpha \in Scalars, beta \in Scalars, seed \in Seeds :
       LET nota == (transa = CharN)
           notb == (transb = CharN)
           lda == Max(1, IF nota THEN m ELSE k) + (seed % 2)
           ldb == Max(1, IF notb THEN k ELSE n) + (seed % 2)
           ldc == m + (seed % 2)
           a == GenBuf(seed, 0, lda * (IF nota THEN k ELSE m))
           b == GenBuf(seed, 3, ldb * (IF notb THEN n ELSE k))
           c == GenBuf(seed, 5, ldc * n)
       IN  /\ call' = "dgemm"
           /\ inp' = [transa |-> transa, transb |-> transb, nota |-> nota,
                      notb |-> notb, m |-> m, n |-> n, k |-> k,
                      alpha |-> alpha, beta |-> beta, a |-> a, lda |-> lda,
                      b |-> b, ldb |-> ldb, c |-> c, ldc |-> ldc]
           /\ out' = [c |-> dgemm(transa, transb, m, n, k, alpha, a, lda,
                                  b, ldb, beta, c, ldc)]
  /\ UNCHANGED heap

NextGemm == CallDgemm \/ Return

SpecGemm == Init /\ [][NextGemm]_vars

\* alpha * (sum over l < k of op(A)[i,l] * op(B)[l,j]) + beta * C_old[i,j]
\* for the arguments g of a dgemm call
GemmExpected(g, i, j) ==
  Plus(Times(g.alpha,
             Sum(0, g.k - 1, LAMBDA l :
                   Times(OpA(g.nota, g.a, g.lda, i, l),
                         OpA(g.notb, g.b, g.ldb, l, j)))),
       Times(g.beta, g.c[i + j * g.ldc]))

\* C6: for each combination of transa and transb, all m, n >= 1, k >= 0,
\* alpha, beta and leading dimensions, dgemm leaves C[i,j] =
\* alpha * (sum over l < k of op(A)[i,l] * op(B)[l,j]) + beta * C_old[i,j]
\* for all 0 <= i < m, 0 <= j < n.
C6_DgemmComputes ==
  call = "dgemm" =>
    \A i \in 0..(inp.m - 1), j \in 0..(inp.n - 1) :
      out.c[i + j * inp.ldc] = GemmExpected(inp, i, j)

\* a call with both matrices transposed, a rectangular product and both
\* scalars in play has changed C
C6_Witness ==
  /\ call = "dgemm"
  /\ ~inp.nota /\ ~inp.notb
  /\ inp.m = 2 /\ inp.n = 3 /\ inp.k = 2
  /\ inp.alpha = R(2) /\ inp.beta = R(2)
  /\ out.c /= inp.c
  /\ \A i \in 0..1, j \in 0..2 :
       out.c[i + j * inp.ldc] = GemmExpected(inp, i, j)

---------------------------------------------------------------------------
(* Packed triangular routines against their dense counterparts.            *)

\* the arguments of a packed triangular call and of its dense counterpart
TpArgs(upper, notrans, unitdiag, n, incx, seed) ==
  LET lda == n + (seed % 2)
  IN  [upper |-> upper, notrans |-> notrans, unitdiag |-> unitdiag,
       n |-> n, ap |-> PackedTri(seed, upper, n),
       a |-> DenseTri(seed, upper, n, n, lda), lda |-> lda,
       x |-> GenBuf(seed, 3, VecLen(n, incx)), incx |-> incx]

\* dtpmv on the packed form and dtrmv on the dense form of one matrix
CompareTpmv ==
  /\ call = "idle"
  /\ \E upper \in BOOLEAN, notrans \in BOOLEAN, unitdiag \in BOOLEAN,
        n \in 1..MaxN, incx \in Incs, seed \in Seeds :
       LET g == TpArgs(upper, notrans, unitdiag, n, incx, seed)
       IN  /\ call' = "dtpmv"
           /\ inp' = g
           /\ out' = [packed |-> dtpmv(UploInt(upper), TransInt(notrans),
                                       DiagInt(unitdiag), n, g.ap, g.x, incx),
                      dense |-> dtrmv(UploChar(upper), TransChar(notrans),
                                      DiagChar(unitdiag), n, g.a, g.lda,
                                      g.x, incx)]
  /\ UNCHANGED heap

\* dtpsv on the packed form and dtrsv on the dense form of one matrix
CompareTpsv ==
  /\ call = "idle"
  /\ \E upper \in BOOLEAN, notrans \in BOOLEAN, unitdiag \in BOOLEAN,
        n \in 1..MaxN, incx \in Incs, seed \in Seeds :
       LET g == TpArgs(upper, notrans, unitdiag, n, incx, seed)
       IN  /\ call' = "dtpsv"
           /\ inp' = g
           /\ out' = [packed |-> dtpsv(UploInt(upper), TransInt(notrans),
                                       DiagInt(unitdiag), n, g.ap, g.x, incx),
                      dense |-> dtrsv(UploChar(upper), TransChar(notrans),
                                      DiagChar(unitdiag), n, g.a, g.lda,
                                      g.x, incx)]
  /\ UNCHANGED heap

NextPackedTri == CompareTpmv \/ CompareTpsv \/ Return

SpecPackedTri == Init /\ [][NextPackedTri]_vars

\* C7: for n >= 1, both uplo values, all trans and diag modes and all
\* nonzero incx, dtpmv and dtpsv on a packed triangular matrix leave the
\* same output vector as dtrmv and dtrsv on the same matrix stored densely.
C7_PackedTriMatchesDense ==
  call \in {"dtpmv", "dtpsv"} => out.packed = out.dense

\* the same statement for dtpmv and dtrmv alone
TpmvMatchesTrmv ==
  call = "dtpmv" => out.packed = out.dense

\* the same statement for dtpsv and dtrsv outside the strided
\* lower-transposed branch of dtrsv
TpsvMatchesTrsvElsewhere ==
  (call = "dtpsv" /\ (inp.upper \/ inp.notrans \/ inp.incx = 1)) =>
    out.packed = out.dense

\* in that branch it is dtpsv that solves the system: multiplying its
\* result by op(A) with dtpmv gives back the right-hand side
TpsvSolves ==
  call = "dtpsv" =>
    dtpmv(UploInt(inp.upper), TransInt(inp.notrans), DiagInt(inp.unitdiag),
          inp.n, inp.ap, out.packed, inp.incx) = inp.x

---------------------------------------------------------------------------
(* Packed symmetric routines against their dense counterparts.             *)

\* dspmv on the packed form and dsymv on the dense form of one matrix
CompareSpmv ==
  /\ call = "idle"
  /\ \E upper \in BOOLEAN, n \in 1..MaxN, alpha \in Scalars,
        beta \in Scalars, incx \in Incs, incy \in Incs, seed \in Seeds :
       LET lda == n + (seed % 2)
           ap == PackedTri(seed, upper, n)
           a == DenseTri(seed, upper, n, n, lda)
           x == GenBuf(seed, 3, VecLen(n, incx))
           y == GenBuf(seed, 5, VecLen(n, incy))
       IN  /\ call' = "dspmv"
           /\ inp' = [upper |-> upper, n |-> n, alpha |-> alpha,
                      beta |-> beta, ap |-> ap, a |-> a, lda |-> lda,
                      x |-> x, incx |-> incx, y |-> y, incy |-> incy]
           /\ out' = [packed |-> dspmv(UploInt(upper), n, alpha, ap,
                                       x, incx, beta, y, incy),
                      dense |-> dsymv(UploChar(upper), n, alpha, a, lda,
                                      x, incx, beta, y, incy)]
  /\ UNCHANGED heap

\* dspr on the packed form and dsyr on the dense form of one matrix
CompareSpr ==
  /\ call = "idle"
  /\ \E upper \in BOOLEAN, n \in 1..MaxN, alpha \in Scalars,
        incx \in Incs, seed \in Seeds :
       LET lda == n + (seed % 2)
           ap == PackedTri(seed, upper, n)
           a == DenseTri(seed, upper, n, n, lda)
           x == GenBuf(seed, 3, VecLen(n, incx))
       IN  /\ call' = "dspr"
           /\ inp' = [upper |-> upper, n |-> n, alpha |-> alpha,
                      ap |-> ap, a |-> a, lda |-> lda,
                      x |-> x, incx |-> incx]
           /\ out' = [packed |-> dspr(UploInt(upper), n, alpha, x, incx, ap),
                      dense |-> dsyr(UploChar(upper), n, alpha, x, incx,
                                     a, lda)]
  /\ UNCHANGED heap

\* dspr2 on the packed form and dsyr2 on the dense form of one matrix
CompareSpr2 ==
  /\ call = "idle"
  /\ \E upper \in BOOLEAN, n \in 1..MaxN, alpha \in Scalars,
        incx \in Incs, incy \in Incs, seed \in Seeds :
       LET lda == n + (seed % 2)
           ap == PackedTri(seed, upper, n)
           a == DenseTri(seed, upper, n, n, lda)
           x == GenBuf(seed, 3, VecLen(n, incx))
           y == GenBuf(seed, 5, VecLen(n, incy))
       IN  /\ call' = "dspr2"
           /\ inp' = [upper |-> upper, n |-> n, alpha |-> alpha,
                      ap |-> ap, a |-> a, lda |-> lda,
                      x |-> x, incx |-> incx, y |-> y, incy |-> incy]
           /\ out' = [packed |-> dspr2(UploInt(upper), n, alpha, x, incx,
                                       y, incy, ap),
                      dense |-> dsyr2(UploChar(upper), n, alpha, x, incx,
                                      y, incy, a, lda)]
  /\ UNCHANGED heap

NextPackedSym == CompareSpmv \/ CompareSpr \/ CompareSpr2 \/ Return

SpecPackedSym == Init /\ [][NextPackedSym]_vars

\* the stored triangle of the packed result equals, element by element,
\* the stored triangle of the dense result
SameTriangle(upper, n, ap, a, lda) ==
  \A i \in 0..(n - 1), j \in 0..(n - 1) :
    InTri(upper, i, j) => ap[PackedIndex(upper, n, i, j)] = a[i + j * lda]

\* C8: for n >= 1, both uplo values and all nonzero increments, dspmv
\* leaves the same output vector as dsymv, and dspr and dspr2 leave the
\* same updated triangle as dsyr and dsyr2, when the packed and the dense
\* arguments hold the same symmetric matrix.
C8_PackedSymMatchesDense ==
  /\ call = "dspmv" => out.packed = out.dense
  /\ call \in {"dspr", "dspr2"} =>
       SameTriangle(inp.upper, inp.n, out.packed, out.dense, inp.lda)

\* a strided dspmv call on a lower triangle of order 3 that changed y, and
\* a strided dspr2 call on an upper triangle of order 3 that changed it
C8_Witness ==
  \/ /\ call = "dspmv" /\ inp.n = 3 /\ ~inp.upper
     /\ inp.incx = -2 /\ inp.incy = 2
     /\ inp.alpha = R(2) /\ inp.beta = R(2)
     /\ out.packed /= inp.y /\ out.packed = out.dense
  \/ /\ call = "dspr2" /\ inp.n = 3 /\ inp.upper
     /\ inp.incx = 2 /\ inp.incy = -1 /\ inp.alpha = R(2)
     /\ out.packed /= inp.ap
     /\ SameTriangle(inp.upper, inp.n, out.packed, out.dense, inp.lda)

---------------------------------------------------------------------------
(* dtrsm followed by dtrmm.                                                *)

SideChar(left) == IF left THEN CharL ELSE CharR

\* B overwritten by the solution of op(A)*X = alpha*B or X*op(A) = alpha*B,
\* then multiplied by op(A) again with alpha = 1
SolveThenMultiplyMat ==
  /\ call = "idle"
  /\ \E left \in BOOLEAN, upper \in BOOLEAN, transa \in TransChars,
        unitdiag \in BOOLEAN, m \in 1..MaxN, n \in 1..MaxN,
        alpha \in Scalars, seed \in Seeds :
       LET na == IF left THEN m ELSE n
           lda == na + (seed % 2)
           ldb == m + ((seed + 1) % 2)
           a == DenseTri(seed, upper, na, na, lda)
           b == GenBuf(seed, 3, ldb * n)
           x == dtrsm(SideChar(left), UploChar(upper), transa,
                      DiagChar(unitdiag), m, n, alpha, a, lda, b, ldb)
       IN  /\ call' = "dtrsm_dtrmm"
           /\ inp' = [left |-> left, upper |-> upper, transa |-> transa,
                      unitdiag |-> unitdiag, m |-> m, n |-> n,
                      alpha |-> alpha, a |-> a, lda |-> lda, b |-> b,
                      ldb |-> ldb]
           /\ out' = [x |-> x,
                      b |-> dtrmm(SideChar(left), UploChar(upper), transa,
                                  DiagChar(unitdiag), m, n, one, a, lda,
                                  x, ldb)]
  /\ UNCHANGED heap

NextTrsm == SolveThenMultiplyMat \/ Return

SpecTrsm == Init /\ [][NextTrsm]_vars

\* C9: for every side, uplo, transa and diag and all m, n >= 1, dtrsm with
\* alpha followed by dtrmm with the same side, uplo, transa, diag and A and
\* with alpha = 1 leaves alpha * B_original in every element of B.
C9_SolveThenMultiplyMatRestores ==
  call = "dtrsm_dtrmm" =>
    \A i \in 0..(inp.m - 1), j \in 0..(inp.n - 1) :
      out.b[i + j * inp.ldb] = Times(inp.alpha, inp.b[i + j * inp.ldb])

\* a right-side, transposed, unit-diagonal round trip on a 3 by 3 matrix B
\* with alpha = 2, whose solution differs from B and from alpha * B
C9_Witness ==
  /\ call = "dtrsm_dtrmm"
  /\ ~inp.left /\ ~inp.upper /\ inp.transa = CharT /\ inp.unitdiag
  /\ inp.m = 3 /\ inp.n = 3 /\ inp.alpha = R(2)
  /\ out.x /= inp.b /\ out.x /= out.b
  /\ \A i \in 0..2, j \in 0..2 :
       out.b[i + j * inp.ldb] = Times(R(2), inp.b[i + j * inp.ldb])

\* the rows of B's storage beyond m are left as the caller had them
TrsmPaddingUntouched ==
  call = "dtrsm_dtrmm" =>
    \A p \in DOMAIN inp.b :
      (p % inp.ldb) >= inp.m => out.b[p] = inp.b[p]

---------------------------------------------------------------------------
(* The triangle updates dsyrk, dsyr2k and dgemmtr.                         *)

\* what C holds on entry: finite values, or non-finite ones in every
\* element or in every other element
Fills == 0..2

GenC(seed, fill, len) ==
  [p \in 0..(len - 1) |->
     IF fill = 1 \/ (fill = 2 /\ (p + seed) % 2 = 0) THEN NaN
     ELSE Gen(seed, p + 5)]

\* the arguments of a triangle update of order n with inner dimension k
TriUpdateArgs(upper, nota, notb, n, k, alpha, beta, seed, fill) ==
  LET lda == Max(1, IF nota THEN n ELSE k) + (seed % 2)
      ldb == Max(1, IF notb THEN k ELSE n) + ((seed + 1) % 2)
      ldc == n + (seed % 2)
  IN  [upper |-> upper, nota |-> nota, notb |-> notb, n |-> n, k |-> k,
       alpha |-> alpha, beta |-> beta,
       a |-> GenBuf(seed, 0, lda * (IF nota THEN k ELSE n)), lda |-> lda,
       b |-> GenBuf(seed, 3, ldb * (IF notb THEN n ELSE k)), ldb |-> ldb,
       c |-> GenC(seed, fill, ldc * n), ldc |-> ldc]

CallDsyrk ==
  /\ call = "idle"
  /\ \E upper \in BOOLEAN, trans \in TransChars, n \in 1..MaxN,
        k \in 0..MaxK, alpha \in Scalars, beta \in Scalars,
        seed \in Seeds, fill \in Fills :
       LET g == TriUpdateArgs(upper, trans = CharN, trans = CharN, n, k,
                              alpha, beta, seed, fill)
       IN  /\ call' = "dsyrk"
           /\ inp' = g
           /\ out' = [c |-> dsyrk(UploChar(upper), trans, n, k, alpha,
                                  g.a, g.lda, beta, g.c, g.ldc)]
  /\ UNCHANGED heap

CallDsyr2k ==
  /\ call = "idle"
  /\ \E upper \in BOOLEAN, trans \in TransChars, n \in 1..MaxN,
        k \in 0..MaxK, alpha \in Scalars, beta \in Scalars,
        seed \in Seeds, fill \in Fills :
       LET nt == (trans = CharN)
           g == TriUpdateArgs(upper, nt, ~nt, n, k, alpha, beta, seed, fill)
       IN  /\ call' = "dsyr2k"
           /\ inp' = g
           /\ out' = [c |-> dsyr2k(UploChar(upper), trans, n, k, alpha,
                                   g.a, g.lda, g.b, g.ldb, beta, g.c, g.ldc)]
  /\ UNCHANGED heap

CallDgemmtr ==
  /\ call = "idle"
  /\ \E upper \in BOOLEAN, nota \in BOOLEAN, notb \in BOOLEAN,
        n \in 1..MaxN, k \in 0..MaxK, alpha \in Scalars, beta \in Scalars,
        seed \in Seeds, fill \in Fills :
       LET g == TriUpdateArgs(upper, nota, notb, n, k, alpha, beta, seed,
                              fill)
       IN  /\ call' = "dgemmtr"
           /\ inp' = g
           /\ out' = [c |-> dgemmtr(UploInt(upper), TransInt(nota),
                                    TransInt(notb), n, k, alpha, g.a, g.lda,
                                    g.b, g.ldb, beta, g.c, g.ldc)]
  /\ UNCHANGED heap

NextTriUpdate == CallDsyrk \/ CallDsyr2k \/ CallDgemmtr \/ Return

SpecTriUpdate == Init /\ [][NextTriUpdate]_vars

TriUpdateCalls == {"dsyrk", "dsyr2k", "dgemmtr"}

\* C10: with beta = 0 and alpha = 0, n >= 1 and any k, dsyrk, dsyr2k and
\* dgemmtr leave exactly zero in every element of the designated triangle
\* of C, diagonal included, whatever C held on entry.
C10_TriangleZeroed ==
  (call \in TriUpdateCalls /\ inp.alpha = zero /\ inp.beta = zero) =>
    \A i \in 0..(inp.n - 1), j \in 0..(inp.n - 1) :
      InTri(inp.upper, i, j) => out.c[i + j * inp.ldc] = zero

\* a dsyr2k call with alpha = beta = 0 on a lower triangle of order 3 that
\* held only non-finite values on entry and holds only zeros on return
C10_Witness ==
  /\ call = "dsyr2k" /\ inp.alpha = zero /\ inp.beta = zero
  /\ inp.n = 3 /\ inp.k = 2 /\ ~inp.upper
  /\ \A i \in 0..2, j \in 0..2 :
       i >= j => /\ IsNaN(inp.c[i + j * inp.ldc])
                 /\ out.c[i + j * inp.ldc] = zero

\* outside the designated triangle C is as the caller had it
TriUpdateLeavesRest ==
  call \in TriUpdateCalls =>
    \A p \in DOMAIN inp.c :
      ~((p % inp.ldc) < inp.n
        /\ InTri(inp.upper, p % inp.ldc, p \div inp.ldc)) =>
        out.c[p] = inp.c[p]

---------------------------------------------------------------------------
(* dgemmtr against dgemm with m = n.                                       *)

\* the integer a caller passes for a transpose mode
TransCode(ch) == IF ch = CharN THEN 0 ELSE IF ch = CharT THEN 1 ELSE 2

\* dgemmtr and dgemm on the same arguments
CompareGemmtr ==
  /\ call = "idle"
  /\ \E upper \in BOOLEAN, transa \in TransChars, transb \in TransChars,
        n \in 1..MaxN, k \in 0..MaxK, alpha \in Scalars, beta \in Scalars,
        seed \in Seeds, fill \in Fills :
       LET g == TriUpdateArgs(upper, transa = CharN, transb = CharN, n, k,
                              alpha, beta, seed, fill)
       IN  /\ call' = "dgemmtr_dgemm"
           /\ inp' = g
           /\ out' = [tr |-> dgemmtr(UploInt(upper), TransCode(transa),
                                     TransCode(transb), n, k, alpha,
                                     g.a, g.lda, g.b, g.ldb, beta,
                                     g.c, g.ldc),
                      full |-> dgemm(transa, transb, n, n, k, alpha,
                                     g.a, g.lda, g.b, g.ldb, beta,
                                     g.c, g.ldc)]
  /\ UNCHANGED heap

NextGemmtr == CompareGemmtr \/ Return

SpecGemmtr == Init /\ [][NextGemmtr]_vars

\* C11: for every uplo, transa, transb, n, k, alpha and beta, dgemmtr
\* leaves in each element of the selected triangle of C, diagonal included,
\* what dgemm with m = n computes for it, and leaves each element of the
\* opposite strict triangle at its entry value.
C11_GemmtrIsGemmOnTriangle ==
  call = "dgemmtr_dgemm" =>
    \A i \in 0..(inp.n - 1), j \in 0..(inp.n - 1) :
      IF InTri(inp.upper, i, j)
      THEN out.tr[i + j * inp.ldc] = out.full[i + j * inp.ldc]
      ELSE out.tr[i + j * inp.ldc] = inp.c[i + j * inp.ldc]

\* an upper-triangle call of order 3 with A transposed, k = 2 and
\* alpha = beta = 2, where dgemm changed elements on both sides of the
\* diagonal and dgemmtr only those of the upper triangle
C11_Witness ==
  /\ call = "dgemmtr_dgemm" /\ inp.upper /\ ~inp.nota /\ inp.notb
  /\ inp.n = 3 /\ inp.k = 2 /\ inp.alpha = R(2) /\ inp.beta = R(2)
  /\ out.tr[0 + 2 * inp.ldc] /= inp.c[0 + 2 * inp.ldc]
  /\ out.tr[0 + 2 * inp.ldc] = out.full[0 + 2 * inp.ldc]
  /\ out.full[2 + 0 * inp.ldc] /= inp.c[2 + 0 * inp.ldc]
  /\ out.tr[2 + 0 * inp.ldc] = inp.c[2 + 0 * inp.ldc]

---------------------------------------------------------------------------
(* The triangle of a symmetric or triangular operand that uplo does not    *)
(* select.  Each routine is run twice: on the operand as the caller has    *)
(* it, and on the operand with every element of the opposite strict        *)
(* triangle replaced by a non-finite value, which any arithmetic on it     *)
(* would carry into the result.                                            *)

\* position p of a column-major buffer lies in the strict triangle
\* opposite to uplo
Opposite(upper, n, ld, p) ==
  (p % ld) < n /\ ~InTri(upper, p % ld, p \div ld)

Poisoned(buf, upper, n, ld) ==
  [p \in DOMAIN buf |-> IF Opposite(upper, n, ld, p) THEN NaN ELSE buf[p]]

\* what every such call records: the operand, its shape, and whether the
\* operand is the routine's output
Operand(upper, n, ld, a, isout) ==
  [upper |-> upper, n |-> n, ld |-> ld, operand |-> a, isout |-> isout]

FrameDsymv ==
  /\ call = "idle"
  /\ \E upper \in BOOLEAN, n \in 1..MaxN, alpha \in Scalars,
        beta \in Scalars, incx \in Incs, incy \in Incs, seed \in Seeds :
       LET lda == n + (seed % 2)
           a == DenseTri(seed, upper, n, n, lda)
           x == GenBuf(seed, 3, VecLen(n, incx))
           y == GenBuf(seed, 5, VecLen(n, incy))
           F(m) == dsymv(UploChar(upper), n, alpha, m, lda, x, incx,
                         beta, y, incy)
       IN  /\ call' = "frame_dsymv"
           /\ inp' = Operand(upper, n, lda, a, FALSE)
           /\ out' = [r |-> F(a), p |-> F(Poisoned(a, upper, n, lda))]
  /\ UNCHANGED heap

FrameDsymm ==
  /\ call = "idle"
  /\ \E left \in BOOLEAN, upper \in BOOLEAN, m \in 1..MaxN, n \in 1..MaxN,
        alpha \in Scalars, beta \in Scalars, seed \in Seeds :
       LET na == IF left THEN m ELSE n
           lda == na + (seed % 2)
           ldb == m + ((seed + 1) % 2)
           ldc == m + (seed % 2)
           a == DenseTri(seed, upper, na, na, lda)
           b == GenBuf(seed, 3, ldb * n)
           c == GenBuf(seed, 5, ldc * n)
           F(mat) == dsymm(SideChar(left), UploChar(upper), m, n, alpha,
                           mat, lda, b, ldb, beta, c, ldc)
       IN  /\ call' = "frame_dsymm"
           /\ inp' = Operand(upper, na, lda, a, FALSE)
           /\ out' = [r |-> F(a), p |-> F(Poisoned(a, upper, na, lda))]
  /\ UNCHANGED heap

FrameDsyr ==
  /\ call = "idle"
  /\ \E upper \in BOOLEAN, n \in 1..MaxN, alpha \in Scalars,
        incx \in Incs, seed \in Seeds :
       LET lda == n + (seed % 2)
           a == DenseTri(seed, upper, n, n, lda)
           x == GenBuf(seed, 3, VecLen(n, incx))
           F(m) == dsyr(UploChar(upper), n, alpha, x, incx, m, lda)
       IN  /\ call' = "frame_dsyr"
           /\ inp' = Operand(upper, n, lda, a, TRUE)
           /\ out' = [r |-> F(a), p |-> F(Poisoned(a, upper, n, lda))]
  /\ UNCHANGED heap

FrameDsyr2 ==
  /\ call = "idle"
  /\ \E upper \in BOOLEAN, n \in 1..MaxN, alpha \in Scalars,
        incx \in Incs, incy \in Incs, seed \in Seeds :
       LET lda == n + (seed % 2)
           a == DenseTri(seed, upper, n, n, lda)
           x == GenBuf(seed, 3, VecLen(n, incx))
           y == GenBuf(seed, 5, VecLen(n, incy))
           F(m) == dsyr2(UploChar(upper), n, alpha, x, incx, y, incy,
                         m, lda)
       IN  /\ call' = "frame_dsyr2"
           /\ inp' = Operand(upper, n, lda, a, TRUE)
           /\ out' = [r |-> F(a), p |-> F(Poisoned(a, upper, n, lda))]
  /\ UNCHANGED heap

FrameDsyrk ==
  /\ call = "idle"
  /\ \E upper \in BOOLEAN, trans \in TransChars, n \in 1..MaxN,
        k \in 0..MaxK, alpha \in Scalars, beta \in Scalars, seed \in Seeds :
       LET nt == (trans = CharN)
           g == TriUpdateArgs(upper, nt, ~nt, n, k, alpha, beta, seed, 0)
           c == DenseTri(seed, upper, n, n, g.ldc)
           F(m) == dsyrk(UploChar(upper), trans, n, k, alpha, g.a, g.lda,
                         beta, m, g.ldc)
       IN  /\ call' = "frame_dsyrk"
           /\ inp' = Operand(upper, n, g.ldc, c, TRUE)
           /\ out' = [r |-> F(c), p |-> F(Poisoned(c, upper, n, g.ldc))]
  /\ UNCHANGED heap

FrameDsyr2k ==
  /\ call = "idle"
  /\ \E upper \in BOOLEAN, trans \in TransChars, n \in 1..MaxN,
        k \in 0..MaxK, alpha \in Scalars, beta \in Scalars, seed \in Seeds :
       LET nt == (trans = CharN)
           g == TriUpdateArgs(upper, nt, ~nt, n, k, alpha, beta, seed, 0)
           c == DenseTri(seed, upper, n, n, g.ldc)
           F(m) == dsyr2k(UploChar(upper), trans, n, k, alpha, g.a, g.lda,
                          g.b, g.ldb, beta, m, g.ldc)
       IN  /\ call' = "frame_dsyr2k"
           /\ inp' = Operand(upper, n, g.ldc, c, TRUE)
           /\ out' = [r |-> F(c), p |-> F(Poisoned(c, upper, n, g.ldc))]
  /\ UNCHANGED heap

FrameDtrmv ==
  /\ call = "idle"
  /\ \E upper \in BOOLEAN, trans \in TransChars, unitdiag \in BOOLEAN,
        n \in 1..MaxN, incx \in Incs, seed \in Seeds :
       LET lda == n + (seed % 2)
           a == DenseTri(seed, upper, n, n, lda)
           x == GenBuf(seed, 3, VecLen(n, incx))
           F(m) == dtrmv(UploChar(upper), trans, DiagChar(unitdiag), n,
                         m, lda, x, incx)
       IN  /\ call' = "frame_dtrmv"
           /\ inp' = Operand(upper, n, lda, a, FALSE)
           /\ out' = [r |-> F(a), p |-> F(Poisoned(a, upper, n, lda))]
  /\ UNCHANGED heap

FrameDtrsv ==
  /\ call = "idle"
  /\ \E upper \in BOOLEAN, trans \in TransChars, unitdiag \in BOOLEAN,
        n \in 1..MaxN, incx \in Incs, seed \in Seeds :
       LET lda == n + (seed % 2)
           a == DenseTri(seed, upper, n, n, lda)
           x == GenBuf(seed, 3, VecLen(n, incx))
           F(m) == dtrsv(UploChar(upper), trans, DiagChar(unitdiag), n,
                         m, lda, x, incx)
       IN  /\ call' = "frame_dtrsv"
           /\ inp' = Operand(upper, n, lda, a, FALSE)
           /\ out' = [r |-> F(a), p |-> F(Poisoned(a, upper, n, lda))]
  /\ UNCHANGED heap

NextFrame ==
  \/ FrameDsymv \/ FrameDsymm \/ FrameDsyr \/ FrameDsyr2
  \/ FrameDsyrk \/ FrameDsyr2k \/ FrameDtrmv \/ FrameDtrsv
  \/ Return

SpecFrame == Init /\ [][NextFrame]_vars

FrameCalls ==
  {"frame_dsymv", "frame_dsymm", "frame_dsyr", "frame_dsyr2",
   "frame_dsyrk", "frame_dsyr2k", "frame_dtrmv", "frame_dtrsv"}

\* C12: dsymv, dsymm, dsyr, dsyr2, dsyrk, dsyr2k, dtrmv and dtrsv neither
\* read nor write an element of their symmetric or triangular operand in
\* the strict triangle opposite to uplo: nothing stored there reaches the
\* result, and what is stored there is there on return.
C12_OppositeTriangleUntouched ==
  call \in FrameCalls =>
    IF inp.isout
    THEN \A p \in DOMAIN inp.operand :
           IF Opposite(inp.upper, inp.n, inp.ld, p)
           THEN out.r[p] = inp.operand[p] /\ out.p[p] = NaN
           ELSE out.r[p] = out.p[p]
    ELSE out.r = out.p

\* a right-side dsymm call on a lower triangle of order 3 whose opposite
\* triangle holds nonzero values and whose result differs from the one a
\* zero matrix A would give, and a dsyr2k call on an upper triangle of
\* order 3 that changed the triangle it was given
C12_Witness ==
  \/ /\ call = "frame_dsymm" /\ ~inp.upper /\ inp.n = 3
     /\ \E p \in DOMAIN inp.operand :
          Opposite(inp.upper, inp.n, inp.ld, p) /\ inp.operand[p] /= zero
     /\ \E q \in DOMAIN out.r : out.r[q] /= zero
     /\ out.r = out.p
  \/ /\ call = "frame_dsyr2k" /\ inp.upper /\ inp.n = 3
     /\ out.r /= inp.operand
     /\ \E p \in DOMAIN inp.operand :
          Opposite(inp.upper, inp.n, inp.ld, p) /\ inp.operand[p] /= zero
     /\ \A p \in DOMAIN inp.operand :
          Opposite(inp.upper, inp.n, inp.ld, p) =>
            out.r[p] = inp.operand[p]

---------------------------------------------------------------------------
(* The diagonal of a unit-triangular matrix.  Each routine is run on the   *)
(* matrix as the caller has it and on the matrix with a non-finite value   *)
(* in every diagonal element.                                              *)

\* the positions of the diagonal in dense, packed and band storage
DenseDiag(n, lda) == {j + j * lda : j \in 0..(n - 1)}

PackedDiag(upper, n) == {PackedIndex(upper, n, j, j) : j \in 0..(n - 1)}

BandDiag(upper, n, k, ldab) ==
  {(IF upper THEN k ELSE 0) + j * ldab : j \in 0..(n - 1)}

Overwritten(buf, D, v) == [p \in DOMAIN buf |-> IF p \in D THEN v ELSE buf[p]]

DiagDtrmv ==
  /\ call = "idle"
  /\ \E upper \in BOOLEAN, notrans \in BOOLEAN, unitdiag \in BOOLEAN,
        n \in 1..MaxN, incx \in Incs, seed \in Seeds :
       LET g == TpArgs(upper, notrans, unitdiag, n, incx, seed)
           F(m) == dtrmv(UploChar(upper), TransChar(notrans),
                         DiagChar(unitdiag), n, m, g.lda, g.x, incx)
       IN  /\ call' = "diag_dtrmv"
           /\ inp' = g
           /\ out' = [r |-> F(g.a),
                      p |-> F(Overwritten(g.a, DenseDiag(n, g.lda), NaN))]
  /\ UNCHANGED heap

DiagDtrsv ==
  /\ call = "idle"
  /\ \E upper \in BOOLEAN, notrans \in BOOLEAN, unitdiag \in BOOLEAN,
        n \in 1..MaxN, incx \in Incs, seed \in Seeds :
       LET g == TpArgs(upper, notrans, unitdiag, n, incx, seed)
           F(m) == dtrsv(UploChar(upper), TransChar(notrans),
                         DiagChar(unitdiag), n, m, g.lda, g.x, incx)
       IN  /\ call' = "diag_dtrsv"
           /\ inp' = g
           /\ out' = [r |-> F(g.a),
                      p |-> F(Overwritten(g.a, DenseDiag(n, g.lda), NaN))]
  /\ UNCHANGED heap

DiagDtpmv ==
  /\ call = "idle"
  /\ \E upper \in BOOLEAN, notrans \in BOOLEAN, unitdiag \in BOOLEAN,
        n \in 1..MaxN, incx \in Incs, seed \in Seeds :
       LET g == TpArgs(upper, notrans, unitdiag, n, incx, seed)
           F(m) == dtpmv(UploInt(upper), TransInt(notrans),
                         DiagInt(unitdiag), n, m, g.x, incx)
       IN  /\ call' = "diag_dtpmv"
           /\ inp' = g
           /\ out' = [r |-> F(g.ap),
                      p |-> F(Overwritten(g.ap, PackedDiag(upper, n), NaN))]
  /\ UNCHANGED heap

DiagDtpsv ==
  /\ call = "idle"
  /\ \E upper \in BOOLEAN, notrans \in BOOLEAN, unitdiag \in BOOLEAN,
        n \in 1..MaxN, incx \in Incs, seed \in Seeds :
       LET g == TpArgs(upper, notrans, unitdiag, n, incx, seed)
           F(m) == dtpsv(UploInt(upper), TransInt(notrans),
                         DiagInt(unitdiag), n, m, g.x, incx)
       IN  /\ call' = "diag_dtpsv"
           /\ inp' = g
           /\ out' = [r |-> F(g.ap),
                      p |-> F(Overwritten(g.ap, PackedDiag(upper, n), NaN))]
  /\ UNCHANGED heap

DiagDtbmv ==
  /\ call = "idle"
  /\ \E upper \in BOOLEAN, notrans \in BOOLEAN, unitdiag \in BOOLEAN,
        n \in 1..MaxN, k \in 0..MaxK, incx \in Incs, seed \in Seeds :
       LET g == TbArgs(upper, notrans, unitdiag, n, k, incx, seed)
           F(m) == dtbmv(UploInt(upper), TransInt(notrans),
                         DiagInt(unitdiag), n, k, m, g.ldab, g.x, incx)
       IN  /\ call' = "diag_dtbmv"
           /\ inp' = g
           /\ out' = [r |-> F(g.ab),
                      p |-> F(Overwritten(g.ab,
                                          BandDiag(upper, n, k, g.ldab),
                                          NaN))]
  /\ UNCHANGED heap

DiagDtbsv ==
  /\ call = "idle"
  /\ \E upper \in BOOLEAN, notrans \in BOOLEAN, unitdiag \in BOOLEAN,
        n \in 1..MaxN, k \in 0..MaxK, incx \in Incs, seed \in Seeds :
       LET g == TbArgs(upper, notrans, unitdiag, n, k, incx, seed)
           F(m) == dtbsv(UploInt(upper), TransInt(notrans),
                         DiagInt(unitdiag), n, k, m, g.ldab, g.x, incx)
       IN  /\ call' = "diag_dtbsv"
           /\ inp' = g
           /\ out' = [r |-> F(g.ab),
                      p |-> F(Overwritten(g.ab,
                                          BandDiag(upper, n, k, g.ldab),
                                          NaN))]
  /\ UNCHANGED heap

\* the arguments of a dtrmm or dtrsm call
TrArgs(left, upper, notrans, unitdiag, m, n, alpha, seed) ==
  LET na == IF left THEN m ELSE n
      lda == na + (seed % 2)
      ldb == m + ((seed + 1) % 2)
  IN  [left |-> left, upper |-> upper, notrans |-> notrans,
       unitdiag |-> unitdiag, m |-> m, n |-> n, na |-> na, alpha |-> alpha,
       a |-> DenseTri(seed, upper, na, na, lda), lda |-> lda,
       b |-> GenBuf(seed, 3, ldb * n), ldb |-> ldb]

DiagDtrmm ==
  /\ call = "idle"
  /\ \E left \in BOOLEAN, upper \in BOOLEAN, notrans \in BOOLEAN,
        unitdiag \in BOOLEAN, m \in 1..MaxN, n \in 1..MaxN,
        alpha \in Scalars, seed \in Seeds :
       LET g == TrArgs(left, upper, notrans, unitdiag, m, n, alpha, seed)
           F(mat) == dtrmm(SideChar(left), UploChar(upper),
                           TransChar(notrans), DiagChar(unitdiag), m, n,
                           alpha, mat, g.lda, g.b, g.ldb)
       IN  /\ call' = "diag_dtrmm"
           /\ inp' = g
           /\ out' = [r |-> F(g.a),
                      p |-> F(Overwritten(g.a, DenseDiag(g.na, g.lda), NaN))]
  /\ UNCHANGED heap

DiagDtrsm ==
  /\ call = "idle"
  /\ \E left \in BOOLEAN, upper \in BOOLEAN, notrans \in BOOLEAN,
        unitdiag \in BOOLEAN, m \in 1..MaxN, n \in 1..MaxN,
        alpha \in Scalars, seed \in Seeds :
       LET g == TrArgs(left, upper, notrans, unitdiag, m, n, alpha, seed)
           F(mat) == dtrsm(SideChar(left), UploChar(upper),
                           TransChar(notrans), DiagChar(unitdiag), m, n,
                           alpha, mat, g.lda, g.b, g.ldb)
       IN  /\ call' = "diag_dtrsm"
           /\ inp' = g
           /\ out' = [r |-> F(g.a),
                      p |-> F(Overwritten(g.a, DenseDiag(g.na, g.lda), NaN))]
  /\ UNCHANGED heap

NextDiag ==
  \/ DiagDtrmv \/ DiagDtrsv \/ DiagDtpmv \/ DiagDtpsv
  \/ DiagDtbmv \/ DiagDtbsv \/ DiagDtrmm \/ DiagDtrsm
  \/ Return

SpecDiag == Init /\ [][NextDiag]_vars

DiagCalls ==
  {"diag_dtrmv", "diag_dtrsv", "diag_dtpmv", "diag_dtpsv",
   "diag_dtbmv", "diag_dtbsv", "diag_dtrmm", "diag_dtrsm"}

\* C13: with diag = Unit the outputs of dtrmv, dtrsv, dtrmm, dtrsm, dtpmv,
\* dtpsv, dtbmv and dtbsv do not depend on what is stored on the diagonal
\* of A: two calls that differ only there give the same output.
C13_UnitDiagonalIgnored ==
  (call \in DiagCalls /\ inp.unitdiag) => out.r = out.p

\* the same statement without the band routines
UnitDiagonalIgnoredDenseAndPacked ==
  (call \in (DiagCalls \ {"diag_dtbmv", "diag_dtbsv"}) /\ inp.unitdiag) =>
    out.r = out.p

\* the same statement for the band routines on an upper triangle
UnitDiagonalIgnoredBandUpper ==
  (call \in {"diag_dtbmv", "diag_dtbsv"} /\ inp.unitdiag /\ inp.upper) =>
    out.r = out.p

---------------------------------------------------------------------------
(* daxpy.                                                                  *)

CallDaxpy ==
  /\ call = "idle"
  /\ \E n \in 1..MaxVecN, alpha \in Scalars, incx \in Incs, incy \in Incs,
        seed \in Seeds :
       LET x == GenBuf(seed, 3, VecLen(n, incx) + 1)
           y == GenBuf(seed, 5, VecLen(n, incy) + 1)
       IN  /\ call' = "daxpy"
           /\ inp' = [n |-> n, alpha |-> alpha, x |-> x, incx |-> incx,
                      y |-> y, incy |-> incy]
           /\ out' = [x |-> x, y |-> daxpy(n, alpha, x, incx, y, incy)]
  /\ UNCHANGED heap

NextAxpy == CallDaxpy \/ Return

SpecAxpy == Init /\ [][NextAxpy]_vars

\* C14: for n > 0, alpha /= 0 and nonzero incx, incy of either sign, daxpy
\* leaves y_old[k] + alpha * x[k] in logical element k of y for k in
\* 0..n-1, logical element k of a vector with a negative increment being
\* at offset (n-1-k)*|inc|, and leaves every other element of y and all of
\* x as they were.
C14_DaxpyUpdatesLogicalElements ==
  (call = "daxpy" /\ inp.alpha /= zero) =>
    /\ \A k \in 0..(inp.n - 1) :
         out.y[Pos(k, inp.n, inp.incy)] =
           Plus(inp.y[Pos(k, inp.n, inp.incy)],
                Times(inp.alpha, inp.x[Pos(k, inp.n, inp.incx)]))
    /\ \A p \in DOMAIN inp.y :
         p \notin LogicalPos(inp.n, inp.incy) => out.y[p] = inp.y[p]
    /\ DOMAIN out.y = DOMAIN inp.y
    /\ out.x = inp.x

\* a call with n = 3, incx = -1, incy = 2 and alpha = 2 that changed the
\* three strided elements of y and no other
C14_Witness ==
  /\ call = "daxpy" /\ inp.n = 3 /\ inp.alpha = R(2)
  /\ inp.incx = -1 /\ inp.incy = 2
  /\ \A k \in 0..2 : out.y[2 * k] = Plus(inp.y[2 * k],
                                         Times(R(2), inp.x[2 - k]))
  /\ \E k \in 0..2 : out.y[2 * k] /= inp.y[2 * k]
  /\ out.y[1] = inp.y[1] /\ out.y[3] = inp.y[3] /\ out.y[5] = inp.y[5]

\* a reachable state: the unrolled loop of the unit-stride branch ran
\* after a remainder
DaxpyUnrolledRan ==
  /\ call = "daxpy" /\ inp.n = 5 /\ inp.incx = 1 /\ inp.incy = 1
  /\ inp.alpha = R(2) /\ out.y[4] /= inp.y[4] /\ out.y[0] /= inp.y[0]

---------------------------------------------------------------------------
(* Calls with an empty dimension.                                          *)

\* the order the buffers are allocated for; a call passes this order or 0
ZeroCap == 2

ZeroDims == {0, ZeroCap}

\* a vector of ZeroCap elements with stride |inc|
ZVec(seed, off, inc) == GenBuf(seed, off, VecLen(ZeroCap, inc))

\* a dense ZeroCap x ZeroCap matrix, lda = ZeroCap
ZMat(seed, off) == GenBuf(seed, off, ZeroCap * ZeroCap)

\* a packed triangle of order ZeroCap
ZPacked(seed, off) == GenBuf(seed, off, (ZeroCap * (ZeroCap + 1)) \div 2)

\* a band matrix of rows rows and ZeroCap columns
ZBand(seed, off, rows) == GenBuf(seed, off, rows * ZeroCap)

\* the record of one call: its dimensions, its scalars, its output
\* buffers on entry and on return
ZeroDimCall(name, m, n, scal, before, after) ==
  /\ call' = name
  /\ inp' = [m |-> m, n |-> n, scal |-> scal, c |-> before]
  /\ out' = after
  /\ UNCHANGED heap

Zero_daxpy ==
  /\ call = "idle"
  /\ \E n \in ZeroDims, alpha \in Scalars, incx \in Incs, incy \in Incs, seed \in Seeds :
       LET x == ZVec(seed, 3, incx)
           y == ZVec(seed, 5, incy)
       IN  ZeroDimCall("zero_daxpy", n, n, <<alpha>>,
             y,
             daxpy(n, alpha, x, incx, y, incy))

Zero_daxpby ==
  /\ call = "idle"
  /\ \E n \in ZeroDims, alpha \in Scalars, beta \in Scalars, incx \in Incs, incy \in Incs, seed \in Seeds :
       LET x == ZVec(seed, 3, incx)
           y == ZVec(seed, 5, incy)
       IN  ZeroDimCall("zero_daxpby", n, n, <<alpha, beta>>,
             y,
             daxpby(n, alpha, x, incx, beta, y, incy))

Zero_dcopy ==
  /\ call = "idle"
  /\ \E n \in ZeroDims, incx \in Incs, incy \in Incs, seed \in Seeds :
       LET x == ZVec(seed, 3, incx)
           y == ZVec(seed, 5, incy)
       IN  ZeroDimCall("zero_dcopy", n, n, <<>>,
             y,
             dcopy(n, x, incx, y, incy))

Zero_dscal ==
  /\ call = "idle"
  /\ \E n \in ZeroDims, alpha \in Scalars, incx \in Incs, seed \in Seeds :
       LET x == ZVec(seed, 3, incx)
       IN  ZeroDimCall("zero_dscal", n, n, <<alpha>>,
             x,
             dscal(n, alpha, x, incx))

Zero_dswap ==
  /\ call = "idle"
  /\ \E n \in ZeroDims, incx \in Incs, incy \in Incs, seed \in Seeds :
       LET x == ZVec(seed, 3, incx)
           y == ZVec(seed, 5, incy)
       IN  ZeroDimCall("zero_dswap", n, n, <<>>,
             [x |-> x, y |-> y],
             dswap(n, x, incx, y, incy))

Zero_drot ==
  /\ call = "idle"
  /\ \E n \in ZeroDims, incx \in Incs, incy \in Incs, seed \in Seeds, cs \in Scalars :
       LET x == ZVec(seed, 3, incx)
           y == ZVec(seed, 5, incy)
       IN  ZeroDimCall("zero_drot", n, n, <<cs>>,
             [x |-> x, y |-> y],
             drot(n, x, incx, y, incy, cs, one))

Zero_drotm ==
  /\ call = "idle"
  /\ \E n \in ZeroDims, incx \in Incs, incy \in Incs, seed \in Seeds, flag \in (-2)..1 :
       LET x == ZVec(seed, 3, incx)
           y == ZVec(seed, 5, incy)
           param == [p \in 0..4 |-> IF p = 0 THEN R(flag) ELSE Gen(seed, p)]
       IN  ZeroDimCall("zero_drotm", n, n, <<R(flag)>>,
             [x |-> x, y |-> y],
             drotm(n, x, incx, y, incy, param))

Zero_dgemv ==
  /\ call = "idle"
  /\ \E m \in ZeroDims, n \in ZeroDims, notrans \in BOOLEAN, alpha \in Scalars, beta \in Scalars, incx \in Incs, incy \in Incs, seed \in Seeds :
       LET a == ZMat(seed, 0)
           x == ZVec(seed, 3, incx)
           y == ZVec(seed, 5, incy)
       IN  ZeroDimCall("zero_dgemv", m, n, <<alpha, beta>>,
             y,
             dgemv(TransChar(notrans), m, n, alpha, a, ZeroCap, x, incx,
                   beta, y, incy))

Zero_dgemv_int ==
  /\ call = "idle"
  /\ \E m \in ZeroDims, n \in ZeroDims, notrans \in BOOLEAN, alpha \in Scalars, beta \in Scalars, incx \in Incs, incy \in Incs, seed \in Seeds :
       LET a == ZMat(seed, 0)
           x == ZVec(seed, 3, incx)
           y == ZVec(seed, 5, incy)
       IN  ZeroDimCall("zero_dgemv_int", m, n, <<alpha, beta>>,
             y,
             dgemv_int(TransInt(notrans), m, n, alpha, a, ZeroCap, x,
                       incx, beta, y, incy))

Zero_dgbmv ==
  /\ call = "idle"
  /\ \E m \in ZeroDims, n \in ZeroDims, notrans \in BOOLEAN, ku \in 0..1, alpha \in Scalars, beta \in Scalars, incx \in Incs, incy \in Incs, seed \in Seeds :
       LET g == ZBand(seed, 0, ku + 2)
           x == ZVec(seed, 3, incx)
           y == ZVec(seed, 5, incy)
       IN  ZeroDimCall("zero_dgbmv", m, n, <<alpha, beta>>,
             y,
             dgbmv(TransInt(notrans), m, n, 1, ku, alpha, g, ku + 2, x,
                   incx, beta, y, incy))

Zero_dger ==
  /\ call = "idle"
  /\ \E m \in ZeroDims, n \in ZeroDims, alpha \in Scalars, incx \in Incs, incy \in Incs, seed \in Seeds :
       LET a == ZMat(seed, 0)
           x == ZVec(seed, 3, incx)
           y == ZVec(seed, 5, incy)
       IN  ZeroDimCall("zero_dger", m, n, <<alpha>>,
             a,
             dger(m, n, alpha, x, incx, y, incy, a, ZeroCap))

Zero_dsymv ==
  /\ call = "idle"
  /\ \E n \in ZeroDims, upper \in BOOLEAN, alpha \in Scalars, beta \in Scalars, incx \in Incs, incy \in Incs, seed \in Seeds :
       LET a == ZMat(seed, 0)
           x == ZVec(seed, 3, incx)
           y == ZVec(seed, 5, incy)
       IN  ZeroDimCall("zero_dsymv", n, n, <<alpha, beta>>,
             y,
             dsymv(UploChar(upper), n, alpha, a, ZeroCap, x, incx, beta,
                   y, incy))

Zero_dsbmv ==
  /\ call = "idle"
  /\ \E n \in ZeroDims, upper \in BOOLEAN, alpha \in Scalars, beta \in Scalars, incx \in Incs, incy \in Incs, seed \in Seeds :
       LET ab == ZBand(seed, 0, 2)
           x == ZVec(seed, 3, incx)
           y == ZVec(seed, 5, incy)
       IN  ZeroDimCall("zero_dsbmv", n, n, <<alpha, beta>>,
             y,
             dsbmv(UploInt(upper), n, 1, alpha, ab, 2, x, incx, beta,
                   y, incy))

Zero_dspmv ==
  /\ call = "idle"
  /\ \E n \in ZeroDims, upper \in BOOLEAN, alpha \in Scalars, beta \in Scalars, incx \in Incs, incy \in Incs, seed \in Seeds :
       LET ap == ZPacked(seed, 0)
           x == ZVec(seed, 3, incx)
           y == ZVec(seed, 5, incy)
       IN  ZeroDimCall("zero_dspmv", n, n, <<alpha, beta>>,
             y,
             dspmv(UploInt(upper), n, alpha, ap, x, incx, beta, y, incy))

Zero_dtrmv ==
  /\ call = "idle"
  /\ \E n \in ZeroDims, upper \in BOOLEAN, notrans \in BOOLEAN, unitdiag \in BOOLEAN, incx \in Incs, seed \in Seeds :
       LET a == ZMat(seed, 0)
           x == ZVec(seed, 3, incx)
       IN  ZeroDimCall("zero_dtrmv", n, n, <<>>,
             x,
             dtrmv(UploChar(upper), TransChar(notrans), DiagChar(unitdiag),
                   n, a, ZeroCap, x, incx))

Zero_dtrsv ==
  /\ call = "idle"
  /\ \E n \in ZeroDims, upper \in BOOLEAN, notrans \in BOOLEAN, unitdiag \in BOOLEAN, incx \in Incs, seed \in Seeds :
       LET a == ZMat(seed, 0)
           x == ZVec(seed, 3, incx)
       IN  ZeroDimCall("zero_dtrsv", n, n, <<>>,
             x,
             dtrsv(UploChar(upper), TransChar(notrans), DiagChar(unitdiag),
                   n, a, ZeroCap, x, incx))

Zero_dtbmv ==
  /\ call = "idle"
  /\ \E n \in ZeroDims, upper \in BOOLEAN, notrans \in BOOLEAN, unitdiag \in BOOLEAN, incx \in Incs, seed \in Seeds :
       LET ab == ZBand(seed, 0, 2)
           x == ZVec(seed, 3, incx)
       IN  ZeroDimCall("zero_dtbmv", n, n, <<>>,
             x,
             dtbmv(UploInt(upper), TransInt(notrans), DiagInt(unitdiag),
                   n, 1, ab, 2, x, incx))

Zero_dtbsv ==
  /\ call = "idle"
  /\ \E n \in ZeroDims, upper \in BOOLEAN, notrans \in BOOLEAN, unitdiag \in BOOLEAN, incx \in Incs, seed \in Seeds :
       LET ab == ZBand(seed, 0, 2)
           x == ZVec(seed, 3, incx)
       IN  ZeroDimCall("zero_dtbsv", n, n, <<>>,
             x,
             dtbsv(UploInt(upper), TransInt(notrans), DiagInt(unitdiag),
                   n, 1, ab, 2, x, incx))

Zero_dtpmv ==
  /\ call = "idle"
  /\ \E n \in ZeroDims, upper \in BOOLEAN, notrans \in BOOLEAN, unitdiag \in BOOLEAN, incx \in Incs, seed \in Seeds :
       LET ap == ZPacked(seed, 0)
           x == ZVec(seed, 3, incx)
       IN  ZeroDimCall("zero_dtpmv", n, n, <<>>,
             x,
             dtpmv(UploInt(upper), TransInt(notrans), DiagInt(unitdiag),
                   n, ap, x, incx))

Zero_dtpsv ==
  /\ call = "idle"
  /\ \E n \in ZeroDims, upper \in BOOLEAN, notrans \in BOOLEAN, unitdiag \in BOOLEAN, incx \in Incs, seed \in Seeds :
       LET ap == ZPacked(seed, 0)
           x == ZVec(seed, 3, incx)
       IN  ZeroDimCall("zero_dtpsv", n, n, <<>>,
             x,
             dtpsv(UploInt(upper), TransInt(notrans), DiagInt(unitdiag),
                   n, ap, x, incx))

Zero_dsyr ==
  /\ call = "idle"
  /\ \E n \in ZeroDims, upper \in BOOLEAN, alpha \in Scalars, incx \in Incs, seed \in Seeds :
       LET a == ZMat(seed, 0)
           x == ZVec(seed, 3, incx)
       IN  ZeroDimCall("zero_dsyr", n, n, <<alpha>>,
             a,
             dsyr(UploChar(upper), n, alpha, x, incx, a, ZeroCap))

Zero_dsyr2 ==
  /\ call = "idle"
  /\ \E n \in ZeroDims, upper \in BOOLEAN, alpha \in Scalars, incx \in Incs, incy \in Incs, seed \in Seeds :
       LET a == ZMat(seed, 0)
           x == ZVec(seed, 3, incx)
           y == ZVec(seed, 5, incy)
       IN  ZeroDimCall("zero_dsyr2", n, n, <<alpha>>,
             a,
             dsyr2(UploChar(upper), n, alpha, x, incx, y, incy, a,
                   ZeroCap))

Zero_dspr ==
  /\ call = "idle"
  /\ \E n \in ZeroDims, upper \in BOOLEAN, alpha \in Scalars, incx \in Incs, seed \in Seeds :
       LET ap == ZPacked(seed, 0)
           x == ZVec(seed, 3, incx)
       IN  ZeroDimCall("zero_dspr", n, n, <<alpha>>,
             ap,
             dspr(UploInt(upper), n, alpha, x, incx, ap))

Zero_dspr2 ==
  /\ call = "idle"
  /\ \E n \in ZeroDims, upper \in BOOLEAN, alpha \in Scalars, incx \in Incs, incy \in Incs, seed \in Seeds :
       LET ap == ZPacked(seed, 0)
           x == ZVec(seed, 3, incx)
           y == ZVec(seed, 5, incy)
       IN  ZeroDimCall("zero_dspr2", n, n, <<alpha>>,
             ap,
             dspr2(UploInt(upper), n, alpha, x, incx, y, incy, ap))

Zero_dgemm ==
  /\ call = "idle"
  /\ \E m \in ZeroDims, n \in ZeroDims, k \in ZeroDims, transa \in TransChars, transb \in TransChars,
        alpha \in Scalars, beta \in Scalars, seed \in Seeds :
       LET a == ZMat(seed, 0)
           b == ZMat(seed, 2)
           c == ZMat(seed, 4)
       IN  ZeroDimCall("zero_dgemm", m, n, <<alpha, beta>>,
             c,
             dgemm(transa, transb, m, n, k, alpha, a, ZeroCap, b, ZeroCap,
                   beta, c, ZeroCap))

Zero_dsymm ==
  /\ call = "idle"
  /\ \E m \in ZeroDims, n \in ZeroDims, left \in BOOLEAN, upper \in BOOLEAN, alpha \in Scalars, beta \in Scalars, seed \in Seeds :
       LET a == ZMat(seed, 0)
           b == ZMat(seed, 2)
           c == ZMat(seed, 4)
       IN  ZeroDimCall("zero_dsymm", m, n, <<alpha, beta>>,
             c,
             dsymm(SideChar(left), UploChar(upper), m, n, alpha, a,
                   ZeroCap, b, ZeroCap, beta, c, ZeroCap))

Zero_dsyrk ==
  /\ call = "idle"
  /\ \E n \in ZeroDims, k \in ZeroDims, upper \in BOOLEAN, notrans \in BOOLEAN, alpha \in Scalars, beta \in Scalars, seed \in Seeds :
       LET a == ZMat(seed, 0)
           c == ZMat(seed, 4)
       IN  ZeroDimCall("zero_dsyrk", n, n, <<alpha, beta>>,
             c,
             dsyrk(UploChar(upper), TransChar(notrans), n, k, alpha, a,
                   ZeroCap, beta, c, ZeroCap))

Zero_dsyr2k ==
  /\ call = "idle"
  /\ \E n \in ZeroDims, k \in ZeroDims, upper \in BOOLEAN, notrans \in BOOLEAN, alpha \in Scalars, beta \in Scalars, seed \in Seeds :
       LET a == ZMat(seed, 0)
           b == ZMat(seed, 2)
           c == ZMat(seed, 4)
       IN  ZeroDimCall("zero_dsyr2k", n, n, <<alpha, beta>>,
             c,
             dsyr2k(UploChar(upper), TransChar(notrans), n, k, alpha, a,
                    ZeroCap, b, ZeroCap, beta, c, ZeroCap))

Zero_dgemmtr ==
  /\ call = "idle"
  /\ \E n \in ZeroDims, k \in ZeroDims, upper \in BOOLEAN, notrans \in BOOLEAN, alpha \in Scalars, beta \in Scalars, seed \in Seeds :
       LET a == ZMat(seed, 0)
           b == ZMat(seed, 2)
           c == ZMat(seed, 4)
       IN  ZeroDimCall("zero_dgemmtr", n, n, <<alpha, beta>>,
             c,
             dgemmtr(UploInt(upper), TransInt(notrans), TransInt(notrans),
                     n, k, alpha, a, ZeroCap, b, ZeroCap, beta, c, ZeroCap))

Zero_dtrmm ==
  /\ call = "idle"
  /\ \E m \in ZeroDims, n \in ZeroDims, left \in BOOLEAN, upper \in BOOLEAN, notrans \in BOOLEAN, unitdiag \in BOOLEAN, alpha \in Scalars, seed \in Seeds :
       LET a == ZMat(seed, 0)
           b == ZMat(seed, 2)
       IN  ZeroDimCall("zero_dtrmm", m, n, <<alpha>>,
             b,
             dtrmm(SideChar(left), UploChar(upper), TransChar(notrans),
                   DiagChar(unitdiag), m, n, alpha, a, ZeroCap, b, ZeroCap))

Zero_dtrsm ==
  /\ call = "idle"
  /\ \E m \in ZeroDims, n \in ZeroDims, left \in BOOLEAN, upper \in BOOLEAN, notrans \in BOOLEAN, unitdiag \in BOOLEAN, alpha \in Scalars, seed \in Seeds :
       LET a == ZMat(seed, 0)
           b == ZMat(seed, 2)
       IN  ZeroDimCall("zero_dtrsm", m, n, <<alpha>>,
             b,
             dtrsm(SideChar(left), UploChar(upper), TransChar(notrans),
                   DiagChar(unitdiag), m, n, alpha, a, ZeroCap, b, ZeroCap))

NextZeroDim ==
  \/ Zero_daxpy
  \/ Zero_daxpby
  \/ Zero_dcopy
  \/ Zero_dscal
  \/ Zero_dswap
  \/ Zero_drot
  \/ Zero_drotm
  \/ Zero_dgemv
  \/ Zero_dgemv_int
  \/ Zero_dgbmv
  \/ Zero_dger
  \/ Zero_dsymv
  \/ Zero_dsbmv
  \/ Zero_dspmv
  \/ Zero_dtrmv
  \/ Zero_dtrsv
  \/ Zero_dtbmv
  \/ Zero_dtbsv
  \/ Zero_dtpmv
  \/ Zero_dtpsv
  \/ Zero_dsyr
  \/ Zero_dsyr2
  \/ Zero_dspr
  \/ Zero_dspr2
  \/ Zero_dgemm
  \/ Zero_dsymm
  \/ Zero_dsyrk
  \/ Zero_dsyr2k
  \/ Zero_dgemmtr
  \/ Zero_dtrmm
  \/ Zero_dtrsm
  \/ Return

SpecZeroDim == Init /\ [][NextZeroDim]_vars

ZeroDimCalls ==
  {"zero_daxpy", "zero_daxpby", "zero_dcopy", "zero_dscal",
   "zero_dswap", "zero_drot", "zero_drotm", "zero_dgemv",
   "zero_dgemv_int", "zero_dgbmv", "zero_dger", "zero_dsymv",
   "zero_dsbmv", "zero_dspmv", "zero_dtrmv", "zero_dtrsv",
   "zero_dtbmv", "zero_dtbsv", "zero_dtpmv", "zero_dtpsv",
   "zero_dsyr", "zero_dsyr2", "zero_dspr", "zero_dspr2",
   "zero_dgemm", "zero_dsymm", "zero_dsyrk", "zero_dsyr2k",
   "zero_dgemmtr", "zero_dtrmm", "zero_dtrsm"}

\* C15: a kernel called with n = 0, or with m = 0 or n = 0 when it has two
\* dimensions, returns with every buffer it may write holding exactly its
\* entry contents.
C15_EmptyCallWritesNothing ==
  (call \in ZeroDimCalls /\ (inp.m = 0 \/ inp.n = 0)) => out = inp.c

\* dgemv called with n = 0, m > 0 and beta = 2 on a y that is not all
\* zero returned y as it was
C15_Witness ==
  /\ call = "zero_dgemv" /\ inp.n = 0 /\ inp.m = ZeroCap
  /\ inp.scal = <<one, R(2)>>
  /\ \E p \in DOMAIN inp.c : inp.c[p] /= zero
  /\ out = inp.c

\* a reachable state: with both dimensions positive the same calls do
\* write
ZeroDimCallsWrite ==
  /\ call \in ZeroDimCalls /\ inp.m = ZeroCap /\ inp.n = ZeroCap
  /\ out /= inp.c

---------------------------------------------------------------------------
(* Calls on buffers that lie next to each other in the heap.               *)

BufLen(buf) == Cardinality(DOMAIN buf)

\* buf1 followed by buf2
Cat(buf1, buf2) ==
  [i \in 0..(BufLen(buf1) + BufLen(buf2) - 1) |->
     IF i < BufLen(buf1) THEN buf1[i] ELSE buf2[i - BufLen(buf1)]]

\* the cell between two allocations (the allocator's header)
Gap == [i \in 0..0 |-> heap]

\* the largest order of the calls on adjacent buffers
FlatN == 2

Places == {"below", "above"}

\* the heap around a call: the input buffers ins (concatenated) either
\* below or above the output buffer outb, one header cell in between
Place(place, ins, outb) ==
  IF place = "below" THEN Cat(Cat(ins, Gap), outb)
  ELSE Cat(Cat(outb, Gap), ins)

\* the address of the output buffer
Base(place, ins) == IF place = "below" THEN BufLen(ins) + 1 ELSE 0

\* the addresses of the input buffers
InCells(place, ins, outb) ==
  IF place = "below" THEN 0..(BufLen(ins) - 1)
  ELSE (BufLen(outb) + 1)..(BufLen(outb) + BufLen(ins))

\* the heap as the kernel addresses it through the pointer base
View(mem, base) == [i \in {p - base : p \in DOMAIN mem} |-> mem[i + base]]

\* the heap after the kernel stored through the pointer base
Unview(v, base) == [p \in {i + base : i \in DOMAIN v} |-> v[p - base]]

\* the record of one call: the heap on entry and on return
FlatCall(name, dims, place, ins, outb, res) ==
  /\ call' = name
  /\ inp' = [dims |-> dims, place |-> place,
             mem |-> Place(place, ins, outb),
             incells |-> InCells(place, ins, outb),
             outcells |-> {Base(place, ins) + i : i \in DOMAIN outb}]
  /\ out' = [mem |-> Unview(res, Base(place, ins))]
  /\ UNCHANGED heap

\* the output buffer as the kernel sees it
OutView(place, ins, outb) == View(Place(place, ins, outb), Base(place, ins))

Flat_dgemv ==
  /\ call = "idle"
  /\ \E m \in 1..MaxN, n \in 1..MaxN, notrans \in BOOLEAN, alpha \in {one, R(2)}, beta \in Scalars, incx \in Incs, incy \in Incs,
        seed \in Seeds, place \in Places :
       LET a == GenBuf(seed, 0, m * n)
           x == GenBuf(seed, 3, VecLen((IF notrans THEN n ELSE m), incx))
           y == GenBuf(seed, 5, VecLen((IF notrans THEN m ELSE n), incy))
           ins == Cat(a, x)
           v == OutView(place, ins, y)
       IN  FlatCall("flat_dgemv", <<m, n, incx, incy>>, place, ins, y,
             dgemv(TransChar(notrans), m, n, alpha, a, m, x, incx, beta, v,
                   incy))

Flat_dgemv_int ==
  /\ call = "idle"
  /\ \E m \in 1..MaxN, n \in 1..MaxN, notrans \in BOOLEAN, alpha \in {one, R(2)}, beta \in Scalars, incx \in Incs, incy \in Incs,
        seed \in Seeds, place \in Places :
       LET a == GenBuf(seed, 0, m * n)
           x == GenBuf(seed, 3, VecLen((IF notrans THEN n ELSE m), incx))
           y == GenBuf(seed, 5, VecLen((IF notrans THEN m ELSE n), incy))
           ins == Cat(a, x)
           v == OutView(place, ins, y)
       IN  FlatCall("flat_dgemv_int", <<m, n, incx, incy>>, place, ins, y,
             dgemv_int(TransInt(notrans), m, n, alpha, a, m, x, incx, beta, v,
                   incy))

Flat_dsymv ==
  /\ call = "idle"
  /\ \E n \in 1..FlatN, upper \in BOOLEAN, alpha \in {one, R(2)}, beta \in Scalars, incx \in Incs, incy \in Incs,
        seed \in Seeds, place \in Places :
       LET a == GenBuf(seed, 0, n * n)
           x == GenBuf(seed, 3, VecLen(n, incx))
           y == GenBuf(seed, 5, VecLen(n, incy))
           ins == Cat(a, x)
           v == OutView(place, ins, y)
       IN  FlatCall("flat_dsymv", <<n, n, incx, incy>>, place, ins, y,
             dsymv(UploChar(upper), n, alpha, a, n, x, incx, beta, v, incy))

Flat_dtrmv ==
  /\ call = "idle"
  /\ \E n \in 1..FlatN, upper \in BOOLEAN, notrans \in BOOLEAN, unitdiag \in BOOLEAN, incx \in Incs,
        seed \in Seeds, place \in Places :
       LET a == GenBuf(seed, 0, n * n)
           x == GenBuf(seed, 3, VecLen(n, incx))
           ins == a
           v == OutView(place, ins, x)
       IN  FlatCall("flat_dtrmv", <<n, n, incx, incx>>, place, ins, x,
             dtrmv(UploChar(upper), TransChar(notrans), DiagChar(unitdiag), n,
                   a, n, v, incx))

Flat_dtrsv ==
  /\ call = "idle"
  /\ \E n \in 1..FlatN, upper \in BOOLEAN, notrans \in BOOLEAN, unitdiag \in BOOLEAN, incx \in Incs,
        seed \in Seeds, place \in Places :
       LET a == GenBuf(seed, 0, n * n)
           x == GenBuf(seed, 3, VecLen(n, incx))
           ins == a
           v == OutView(place, ins, x)
       IN  FlatCall("flat_dtrsv", <<n, n, incx, incx>>, place, ins, x,
             dtrsv(UploChar(upper), TransChar(notrans), DiagChar(unitdiag), n,
                   a, n, v, incx))

Flat_dtrmm ==
  /\ call = "idle"
  /\ \E m \in 1..FlatN, n \in 1..FlatN, left \in BOOLEAN, upper \in BOOLEAN, notrans \in BOOLEAN, unitdiag \in BOOLEAN, alpha \in {one, R(2)},
        seed \in Seeds, place \in Places :
       LET k == IF left THEN m ELSE n
           a == GenBuf(seed, 0, k * k)
           b == GenBuf(seed, 2, m * n)
           ins == a
           v == OutView(place, ins, b)
       IN  FlatCall("flat_dtrmm", <<m, n, 1, 1>>, place, ins, b,
             dtrmm(SideChar(left), UploChar(upper), TransChar(notrans),
                   DiagChar(unitdiag), m, n, alpha, a, k, v, m))

Flat_dtrsm ==
  /\ call = "idle"
  /\ \E m \in 1..FlatN, n \in 1..FlatN, left \in BOOLEAN, upper \in BOOLEAN, notrans \in BOOLEAN, unitdiag \in BOOLEAN, alpha \in {one, R(2)},
        seed \in Seeds, place \in Places :
       LET k == IF left THEN m ELSE n
           a == GenBuf(seed, 0, k * k)
           b == GenBuf(seed, 2, m * n)
           ins == a
           v == OutView(place, ins, b)
       IN  FlatCall("flat_dtrsm", <<m, n, 1, 1>>, place, ins, b,
             dtrsm(SideChar(left), UploChar(upper), TransChar(notrans),
                   DiagChar(unitdiag), m, n, alpha, a, k, v, m))

Flat_dger ==
  /\ call = "idle"
  /\ \E m \in 1..FlatN, n \in 1..FlatN, alpha \in {one, R(2)}, incx \in Incs, incy \in Incs,
        seed \in Seeds, place \in Places :
       LET a == GenBuf(seed, 0, m * n)
           x == GenBuf(seed, 3, VecLen(m, incx))
           y == GenBuf(seed, 5, VecLen(n, incy))
           ins == Cat(x, y)
           v == OutView(place, ins, a)
       IN  FlatCall("flat_dger", <<m, n, incx, incy>>, place, ins, a,
             dger(m, n, alpha, x, incx, y, incy, v, m))

Flat_dsyr2 ==
  /\ call = "idle"
  /\ \E n \in 1..FlatN, upper \in BOOLEAN, alpha \in {one, R(2)}, incx \in Incs, incy \in Incs,
        seed \in Seeds, place \in Places :
       LET a == GenBuf(seed, 0, n * n)
           x == GenBuf(seed, 3, VecLen(n, incx))
           y == GenBuf(seed, 5, VecLen(n, incy))
           ins == Cat(x, y)
           v == OutView(place, ins, a)
       IN  FlatCall("flat_dsyr2", <<n, n, incx, incy>>, place, ins, a,
             dsyr2(UploChar(upper), n, alpha, x, incx, y, incy, v, n))

Flat_dgemm ==
  /\ call = "idle"
  /\ \E m \in 1..FlatN, n \in 1..FlatN, k \in 1..FlatN, nota \in BOOLEAN, notb \in BOOLEAN,
        alpha \in {one, R(2)}, beta \in Scalars,
        seed \in Seeds, place \in Places :
       LET lda == IF nota THEN m ELSE k
           ldb == IF notb THEN k ELSE n
           a == GenBuf(seed, 0, m * k)
           b == GenBuf(seed, 2, k * n)
           c == GenBuf(seed, 4, m * n)
           ins == Cat(a, b)
           v == OutView(place, ins, c)
       IN  FlatCall("flat_dgemm", <<m, n, 1, 1>>, place, ins, c,
             dgemm(TransChar(nota), TransChar(notb), m, n, k, alpha, a, lda,
                   b, ldb, beta, v, m))

Flat_dsymm ==
  /\ call = "idle"
  /\ \E m \in 1..FlatN, n \in 1..FlatN, left \in BOOLEAN, upper \in BOOLEAN, alpha \in {one, R(2)}, beta \in Scalars,
        seed \in Seeds, place \in Places :
       LET k == IF left THEN m ELSE n
           a == GenBuf(seed, 0, k * k)
           b == GenBuf(seed, 2, m * n)
           c == GenBuf(seed, 4, m * n)
           ins == Cat(a, b)
           v == OutView(place, ins, c)
       IN  FlatCall("flat_dsymm", <<m, n, 1, 1>>, place, ins, c,
             dsymm(SideChar(left), UploChar(upper), m, n, alpha, a, k, b, m,
                   beta, v, m))

Flat_dsyr2k ==
  /\ call = "idle"
  /\ \E n \in 1..FlatN, k \in 1..FlatN, upper \in BOOLEAN, notrans \in BOOLEAN, alpha \in {one, R(2)}, beta \in Scalars,
        seed \in Seeds, place \in Places :
       LET lda == IF notrans THEN n ELSE k
           a == GenBuf(seed, 0, n * k)
           b == GenBuf(seed, 2, n * k)
           c == GenBuf(seed, 4, n * n)
           ins == Cat(a, b)
           v == OutView(place, ins, c)
       IN  FlatCall("flat_dsyr2k", <<n, n, 1, 1>>, place, ins, c,
             dsyr2k(UploChar(upper), TransChar(notrans), n, k, alpha, a, lda,
                    b, lda, beta, v, n))

Flat_dcopy ==
  /\ call = "idle"
  /\ \E n \in 1..MaxVecN, incx \in Incs, incy \in Incs,
        seed \in Seeds, place \in Places :
       LET x == GenBuf(seed, 3, VecLen(n, incx))
           y == GenBuf(seed, 5, VecLen(n, incy))
           ins == x
           v == OutView(place, ins, y)
       IN  FlatCall("flat_dcopy", <<n, n, incx, incy>>, place, ins, y,
             dcopy(n, x, incx, v, incy))

Flat_daxpy ==
  /\ call = "idle"
  /\ \E n \in 1..MaxVecN, alpha \in {one, R(2)}, incx \in Incs, incy \in Incs,
        seed \in Seeds, place \in Places :
       LET x == GenBuf(seed, 3, VecLen(n, incx))
           y == GenBuf(seed, 5, VecLen(n, incy))
           ins == x
           v == OutView(place, ins, y)
       IN  FlatCall("flat_daxpy", <<n, n, incx, incy>>, place, ins, y,
             daxpy(n, alpha, x, incx, v, incy))

\* ddot takes both vectors through const pointers and stores nothing: the
\* heap on return is the heap on entry
Flat_ddot ==
  /\ call = "idle"
  /\ \E n \in 1..MaxVecN, incx \in Incs, incy \in Incs,
        seed \in Seeds, place \in Places :
       LET x == GenBuf(seed, 3, VecLen(n, incx))
           y == GenBuf(seed, 5, VecLen(n, incy))
           none == [i \in {} |-> zero]
           ins == Cat(x, y)
           r == ddot(n, x, incx, y, incy)
       IN  /\ call' = "flat_ddot"
           /\ inp' = [dims |-> <<n, n, incx, incy>>, place |-> place,
                      mem |-> Place(place, ins, none),
                      incells |-> InCells(place, ins, none),
                      outcells |-> {}]
           /\ out' = [mem |-> Place(place, ins, none), r |-> r]
           /\ UNCHANGED heap

NextFlat ==
  \/ Flat_dgemv
  \/ Flat_dgemv_int
  \/ Flat_dsymv
  \/ Flat_dtrmv
  \/ Flat_dtrsv
  \/ Flat_dtrmm
  \/ Flat_dtrsm
  \/ Flat_dger
  \/ Flat_dsyr2
  \/ Flat_dgemm
  \/ Flat_dsymm
  \/ Flat_dsyr2k
  \/ Flat_dcopy
  \/ Flat_daxpy
  \/ Flat_ddot
  \/ Return

SpecFlat == Init /\ [][NextFlat]_vars

FlatCalls ==
  {"flat_dgemv", "flat_dgemv_int", "flat_dsymv", "flat_dtrmv",
   "flat_dtrsv", "flat_dtrmm", "flat_dtrsm", "flat_dger",
   "flat_dsyr2", "flat_dgemm", "flat_dsymm", "flat_dsyr2k",
   "flat_dcopy", "flat_daxpy", "flat_ddot"}

\* C16: after a kernel call every buffer other than the routine's output
\* holds exactly its entry contents.
C16_InputsUntouched ==
  call \in FlatCalls =>
    \A p \in inp.incells : out.mem[p] = inp.mem[p]

\* the same of every routine but the dgemv kernel of src/src/cpp/dgemv.cpp
InputsUntouchedElsewhere ==
  (call \in FlatCalls /\ call /= "flat_dgemv") =>
    \A p \in inp.incells : out.mem[p] = inp.mem[p]

\* a reachable state: a call that changed its output buffer and no input
FlatCallWroteOutput ==
  /\ call \in FlatCalls
  /\ \E p \in inp.outcells : out.mem[p] /= inp.mem[p]
  /\ \A p \in inp.incells : out.mem[p] = inp.mem[p]

---------------------------------------------------------------------------
(* drotg: the rotation that maps (a, b) to (r, 0).                         *)

\* the largest |a|, |b| drawn
MaxAB == 12

\* src/src/drotg.ts: a and b are stored in the heap, the kernel is called
\* and r, z, c, s are read back; the pairs drawn have a rational
\* sqrt(a^2 + b^2)
CallDrotg ==
  /\ call = "idle"
  /\ \E a \in (-MaxAB)..MaxAB, b \in (-MaxAB)..MaxAB :
       /\ IsSquare(a * a + b * b)
       /\ LET g == drotg(R(a), R(b))
          IN  /\ call' = "drotg"
              /\ inp' = [a |-> R(a), b |-> R(b)]
              /\ out' = [r |-> g.a, z |-> g.b, c |-> g.c, s |-> g.s]
  /\ UNCHANGED heap

NextRotg == CallDrotg \/ Return

SpecRotg == Init /\ [][NextRotg]_vars

\* the value the rule "s when |a| > |b|, otherwise 1/c when c /= 0,
\* otherwise 1" gives
AuxiliaryRule ==
  IF Less(AbsR(inp.b), AbsR(inp.a)) THEN out.s
  ELSE IF out.c /= zero THEN Over(one, out.c)
  ELSE one

\* C17 as stated: for every pair (a, b), a = 0 and b = 0 included, the z
\* that drotg writes in place of b is s when |a| > |b|, otherwise 1/c when
\* c /= 0, otherwise 1.
C17_AuxiliaryForEveryPair ==
  call = "drotg" => out.z = AuxiliaryRule

\* C17 amended: the rule gives z for every pair but a = b = 0; for
\* a = b = 0 drotg returns c = 1, s = 0 and z = 0.
C17_AuxiliaryButAtOrigin ==
  call = "drotg" =>
    IF inp.a = zero /\ inp.b = zero
    THEN out.z = zero /\ out.c = one /\ out.s = zero
    ELSE out.z = AuxiliaryRule

\* drotg(3, 4) returned r = 5, c = 3/5, s = 4/5 and z = 1/c = 5/3
C17_Witness ==
  /\ call = "drotg" /\ inp.a = R(3) /\ inp.b = R(4)
  /\ out.r = R(5) /\ out.c = <<3, 5>> /\ out.s = <<4, 5>>
  /\ out.z = <<5, 3>>

\* a reachable state: a = 0 and b /= 0 gives c = 0 and z = 1
RotgZeroCosine ==
  /\ call = "drotg" /\ inp.a = zero /\ inp.b /= zero
  /\ out.c = zero /\ out.z = one

---------------------------------------------------------------------------
(* drot and its inverse.                                                   *)

\* pairs (c, s) with c^2 + s^2 = 1
Rotations ==
  {<<one, zero>>, <<zero, one>>, <<R(-1), zero>>, <<zero, R(-1)>>,
   <<Rat(3, 5), Rat(4, 5)>>, <<Rat(4, 5), Rat(-3, 5)>>,
   <<Rat(-3, 5), Rat(4, 5)>>}

\* src/tests/drot.test.ts: drot(x, y, c, s) and then drot(x, y, c, -s) on
\* the buffers the first call left
RotateThenInverse ==
  /\ call = "idle"
  /\ \E n \in 0..MaxN, incx \in Incs, incy \in Incs, cs \in Rotations,
        seed \in Seeds :
       LET x == GenBuf(seed, 3, VecLen(n, incx) + 1)
           y == GenBuf(seed, 5, VecLen(n, incy) + 1)
           mid == drot(n, x, incx, y, incy, cs[1], cs[2])
           back == drot(n, mid.x, incx, mid.y, incy, cs[1], Neg(cs[2]))
       IN  /\ call' = "drot_drot"
           /\ inp' = [n |-> n, x |-> x, incx |-> incx, y |-> y,
                      incy |-> incy, c |-> cs[1], s |-> cs[2]]
           /\ out' = [mid |-> mid, back |-> back]
  /\ UNCHANGED heap

NextRot == RotateThenInverse \/ Return

SpecRot == Init /\ [][NextRot]_vars

\* C18: for any n, nonzero increments and c, s with c^2 + s^2 = 1,
\* drot(x, y, c, s) followed by drot(x, y, c, -s) on the same buffers
\* leaves every element of x and y at its original value.
C18_RotationThenInverseRestores ==
  call = "drot_drot" =>
    /\ Plus(Times(inp.c, inp.c), Times(inp.s, inp.s)) = one
    /\ out.back.x = inp.x
    /\ out.back.y = inp.y

\* a rotation by c = 3/5, s = 4/5 of three elements with strides -1 and 2
\* changed both vectors, and the inverse brought both back
C18_Witness ==
  /\ call = "drot_drot" /\ inp.n = 3 /\ inp.incx = -1 /\ inp.incy = 2
  /\ inp.c = Rat(3, 5) /\ inp.s = Rat(4, 5)
  /\ out.mid.x /= inp.x /\ out.mid.y /= inp.y
  /\ out.back.x = inp.x /\ out.back.y = inp.y

---------------------------------------------------------------------------
(* drotmg step by step, and drotm applied to what it generated.            *)

\* the small doubles drawn have the exponents -ExpStep * k, k up to NumExps
NumExps == 1

\* two exponents drawn are equal or further apart than AbsorbExp
ExpStep == 7

Mants == {R(-4), zero, one, R(8)}

\* the exponents drawn: some small ones, 0, and the largest a power of Gam
\* can have
Exps == {-ExpStep * k : k \in 0..NumExps} \cup {DblMaxExp}

\* the finite doubles drawn for dd1 and dd2
DblSet ==
  {v \in {Round(Dbl(q, e)) : q \in Mants, e \in Exps} : DFinite(v)}

\* the doubles drawn for dx1 and dy1
SmallSet == {DZero, DOne, Dbl(R(2), 0)}

\* src/src/drotmg.ts: dd1, dd2, dx1 are stored in the heap, param is
\* allocated and left as the heap held it, and the kernel is entered; it
\* runs up to its return or up to the first rescaling loop it has to
\* execute.  The locals the kernel has not assigned hold what the stack
\* held.
CallDrotmg ==
  /\ call = "idle"
  /\ \E dd1 \in DblSet, dd2 \in DblSet, dx1 \in SmallSet, dy1 \in SmallSet :
       LET junk == Round(Dbl(heap, 0))
           param == [p \in 0..4 |-> junk]
           s0 == [dd1 |-> dd1, dd2 |-> dd2, dx1 |-> dx1, dy1 |-> dy1,
                  flag |-> junk, h11 |-> junk, h12 |-> junk,
                  h21 |-> junk, h22 |-> junk, param |-> param]
           r == RotmgEnter(s0)
       IN  /\ call' = r.pc
           /\ inp' = [dd1 |-> dd1, dd2 |-> dd2, dx1 |-> dx1, dy1 |-> dy1,
                      param |-> param]
           /\ out' = r.s
  /\ UNCHANGED heap

\* one pass through the loop on dd1
Dd1Scale ==
  /\ call = "drotmg_while1"
  /\ RotmgWhile1(out)
  /\ out' = RotmgBody1(out)
  /\ UNCHANGED <<call, inp, heap>>

\* the loop on dd1 is left
Dd1Done ==
  /\ call = "drotmg_while1"
  /\ ~RotmgWhile1(out)
  /\ call' = RotmgDd2Check(out).pc
  /\ out' = RotmgDd2Check(out).s
  /\ UNCHANGED <<inp, heap>>

\* one pass through the loop on dd2
Dd2Scale ==
  /\ call = "drotmg_while2"
  /\ RotmgWhile2(out)
  /\ out' = RotmgBody2(out)
  /\ UNCHANGED <<call, inp, heap>>

\* the loop on dd2 is left, param is set and the kernel returns
Dd2Done ==
  /\ call = "drotmg_while2"
  /\ ~RotmgWhile2(out)
  /\ call' = "drotmg"
  /\ out' = SetParam(out)
  /\ UNCHANGED <<inp, heap>>

\* a double of the exponent range as a plain double
ToRat(v) ==
  IF DIsNaN(v) \/ DIsInf(v) THEN NaN
  ELSE IF v.e >= 0 THEN Times(v.q, R(GamTo(v.e)))
  ELSE Over(v.q, R(GamTo(-v.e)))

NextRotmg ==
  \/ CallDrotmg
  \/ Dd1Scale
  \/ Dd1Done
  \/ Dd2Scale
  \/ Dd2Done
  \/ Return

SpecRotmg == Init /\ [][NextRotmg]_vars

\* a kernel that was entered runs on: it takes its next step, a loop test
\* or a pass through a loop body, as long as it has not returned
RotmgStep == Dd1Scale \/ Dd1Done \/ Dd2Scale \/ Dd2Done

SpecRotmgLive == SpecRotmg /\ WF_vars(RotmgStep)

\* zero, or within [rgamsq, gamsq]
InScale(v) == v = DZero \/ (DLeq(rgamsq, v) /\ DLeq(v, gamsq))

\* C19: on every finite input that brings drotmg to its scale check the
\* rescaling loops stop after finitely many passes, and on return each of
\* dd1 and |dd2| is zero or lies within [rgamsq, gamsq].
C19_RescalingTerminatesInScale ==
  (call \in Running) ~>
    (call = "drotmg" /\ InScale(out.dd1) /\ InScale(DAbs(out.dd2)))

\* whenever drotmg does return from its scale check with dd1 and dd2 that
\* are numbers, dd1 and |dd2| are zero or within [rgamsq, gamsq]
RotmgInScaleUnlessNaN ==
  (/\ call = "drotmg"
   /\ out.param[0] /= DNeg(Dbl(R(2), 0))
   /\ ~DIsNaN(out.dd1)
   /\ ~DIsNaN(out.dd2)) =>
    (InScale(out.dd1) /\ InScale(DAbs(out.dd2)))

\* the loops stop whenever the division by du has not overflowed
RotmgTerminatesWhenFinite ==
  (call \in Running /\ DFinite(out.dd1) /\ DFinite(out.dd2)) ~>
    (call = "drotmg")

\* a reachable state: drotmg has returned dd1 that is not a number
RotmgReturnsNaN ==
  call = "drotmg" /\ DIsNaN(out.dd1)

\* a reachable state: dd1 is infinite inside the loop on dd1
RotmgInfiniteInLoop ==
  call = "drotmg_while1" /\ DIsInf(out.dd1)

\* C20: generate, then apply.

\* the vectors a rotation is applied to
RotmSeed == 1

\* src/src/cpp/dgemv.cpp (drotm) called with the param array drotmg left;
\* the arrays drawn are those whose entries are finite and within Gam^2
\* of 1
ApplyDrotm ==
  /\ call = "drotmg"
  /\ \A p \in 0..4 : DFinite(out.param[p]) /\ out.param[p].e \in (-2)..1
  /\ \E n \in 0..MaxN, incx \in Incs, incy \in Incs :
       LET x == GenBuf(RotmSeed, 3, VecLen(n, incx) + 1)
           y == GenBuf(RotmSeed, 5, VecLen(n, incy) + 1)
           param == [p \in 0..4 |-> ToRat(out.param[p])]
           r == drotm(n, x, incx, y, incy, param)
       IN  /\ call' = "drotmg_drotm"
           /\ inp' = [gen |-> inp, n |-> n, x |-> x, incx |-> incx,
                      y |-> y, incy |-> incy]
           /\ out' = [gen |-> [dd1 |-> out.dd1, dd2 |-> out.dd2,
                               dx1 |-> out.dx1, param |-> out.param],
                      x |-> r.x, y |-> r.y]
  /\ UNCHANGED heap

NextRotmgRotm ==
  \/ CallDrotmg
  \/ Dd1Scale
  \/ Dd1Done
  \/ Dd2Scale
  \/ Dd2Done
  \/ ApplyDrotm
  \/ Return

SpecRotmgRotm == Init /\ [][NextRotmgRotm]_vars

\* the flag drotmg stores when it has nothing to do
FlagUnchanged == DNeg(Dbl(R(2), 0))

\* dd1, dd2, dx1 and param[1..4] of the record after are those of before
RotmgLeft(before, after) ==
  /\ after.dd1 = before.dd1
  /\ after.dd2 = before.dd2
  /\ after.dx1 = before.dx1
  /\ \A p \in 1..4 : after.param[p] = before.param[p]

\* C20: whenever drotmg returns flag -2 it has left dd1, dd2, dx1 and
\* param[1..4] at their entry values, and a drotm call with that param
\* array afterwards leaves every element of x and y unchanged, for any n
\* and any increments.
C20_FlagMinusTwoIsNoOp ==
  /\ (call = "drotmg" /\ out.param[0] = FlagUnchanged) =>
       RotmgLeft(inp, out)
  /\ (call = "drotmg_drotm" /\ out.gen.param[0] = FlagUnchanged) =>
       /\ RotmgLeft(inp.gen, out.gen)
       /\ out.x = inp.x
       /\ out.y = inp.y

\* a reachable state: drotmg has returned flag -2 over a param array of
\* nonzero entries, and drotm was applied with it to vectors that are not
\* zero
C20_Witness ==
  /\ call = "drotmg_drotm"
  /\ out.gen.param[0] = FlagUnchanged
  /\ out.gen.param[1] /= DZero
  /\ inp.gen.dd1 /= DZero
  /\ inp.n = MaxN
  /\ inp.incx < 0
  /\ inp.incy > 1
  /\ \E i \in DOMAIN inp.x : inp.x[i] /= zero
  /\ \E i \in DOMAIN inp.y : inp.y[i] /= zero
  /\ out.x = inp.x
  /\ out.y = inp.y

\* a reachable state: with another flag drotm does change the vectors
RotmChangesVectors ==
  /\ call = "drotmg_drotm"
  /\ out.gen.param[0] /= FlagUnchanged
  /\ out.x /= inp.x

\* C21: drotm applies H to every pair.

\* the values drawn for the entries of H
Hs == {R(2), Rat(-1, 2)}

\* the flags that select one of the three forms of H
RotmFlags == {R(-1), zero, one}

\* src/unnamed/part_000 (drotm): x, y and param are copied to the heap, the
\* kernel runs, and x and y are copied back
CallDrotm ==
  /\ call = "idle"
  /\ \E n \in 0..MaxN, incx \in Incs, incy \in Incs, seed \in Seeds,
        flag \in RotmFlags, ha \in Hs, hb \in Hs, hc \in Hs, hd \in Hs :
       LET x == GenBuf(seed, 3, VecLen(n, incx) + 1)
           y == GenBuf(seed, 5, VecLen(n, incy) + 1)
           param == [p \in 0..4 |->
                       CASE p = 0 -> flag
                         [] p = 1 -> ha
                         [] p = 2 -> hb
                         [] p = 3 -> hc
                         [] p = 4 -> hd]
           r == drotm(n, x, incx, y, incy, param)
       IN  /\ call' = "drotm"
           /\ inp' = [n |-> n, x |-> x, incx |-> incx, y |-> y,
                      incy |-> incy, param |-> param]
           /\ out' = [x |-> r.x, y |-> r.y]
  /\ UNCHANGED heap

NextRotm == CallDrotm \/ Return

SpecRotm == Init /\ [][NextRotm]_vars

\* the entries of param the flag names
RotmNamed(flag) ==
  IF Less(flag, zero) THEN {1, 2, 3, 4}
  ELSE IF flag = zero THEN {2, 3}
  ELSE {1, 4}

\* param with the entries the flag does not name replaced by v
RotmOthers(param, v) ==
  [p \in 0..4 |->
     IF p = 0 \/ p \in RotmNamed(param[0]) THEN param[p] ELSE v]

\* what the three multiply patterns give for the pair (w, z)
RotmPair(param, w, z) ==
  LET h11 == param[1]
      h21 == param[2]
      h12 == param[3]
      h22 == param[4]
  IN  IF param[0] = R(-1)
      THEN [x |-> Plus(Times(h11, w), Times(h12, z)),
            y |-> Plus(Times(h21, w), Times(h22, z))]
      ELSE IF param[0] = zero
      THEN [x |-> Plus(w, Times(h12, z)), y |-> Plus(Times(h21, w), z)]
      ELSE [x |-> Plus(Times(h11, w), z), y |-> Minus(Times(h22, z), w)]

\* the n logical elements of a strided vector, as a unit-stride vector
Logical(v, n, inc) == [i \in 0..(n - 1) |-> v[Pos(i, n, inc)]]

\* C21: for each of the n logical pairs drotm computes, from the values the
\* pair had before, the multiply pattern of the flag (-1, 0 or 1); the
\* param entries the flag does not name have no influence; and the
\* equal-positive-increment path gives the same logical result as the
\* general strided path.
C21_RotmAppliesFlaggedPattern ==
  call = "drotm" =>
    LET n == inp.n
        unit == drotm(n, Logical(inp.x, n, inp.incx), 1,
                      Logical(inp.y, n, inp.incy), 1, inp.param)
    IN  /\ \A i \in 0..(n - 1) :
             LET ix == Pos(i, n, inp.incx)
                 iy == Pos(i, n, inp.incy)
                 e == RotmPair(inp.param, inp.x[ix], inp.y[iy])
             IN  out.x[ix] = e.x /\ out.y[iy] = e.y
        /\ \A v \in {zero, R(7), NaN} :
             drotm(n, inp.x, inp.incx, inp.y, inp.incy,
                   RotmOthers(inp.param, v)) = out
        /\ Logical(out.x, n, inp.incx) = unit.x
        /\ Logical(out.y, n, inp.incy) = unit.y

\* a reachable state: flag 1 applied on the general path to MaxN pairs
C21_Witness ==
  /\ call = "drotm"
  /\ inp.param[0] = one
  /\ inp.n = MaxN
  /\ inp.incx < 0
  /\ inp.incy > 1
  /\ \A i \in 0..(inp.n - 1) :
       out.y[Pos(i, inp.n, inp.incy)] /= inp.y[Pos(i, inp.n, inp.incy)]
  /\ out.x /= inp.x

\* C22: dasum of nothing.

\* contents of x: generated data, or every element not a number
DasumFills == Seeds \cup {0}

\* src/src/cpp/dtpmv.cpp (dasum) entered with n, incx and a buffer of len
\* doubles; n and incx include the values for which there is nothing to sum
CallDasum ==
  /\ call = "idle"
  /\ \E n \in (-1)..MaxVecN, incx \in (-MaxInc)..MaxInc,
        fill \in DasumFills, len \in {0, 1 + MaxVecN * MaxInc} :
       LET x == IF fill = 0 THEN [p \in 0..(len - 1) |-> NaN]
                ELSE GenBuf(fill, 1, len)
           r == dasum(n, x, incx)
       IN  /\ len > 0 \/ n <= 0 \/ incx <= 0
           /\ call' = "dasum"
           /\ inp' = [n |-> n, x |-> x, incx |-> incx]
           /\ out' = r
  /\ UNCHANGED heap

NextAsum == CallDasum \/ Return

SpecAsum == Init /\ [][NextAsum]_vars

AsumReadsElements ==
  /\ call = "dasum"
  /\ inp.n = MaxVecN
  /\ inp.incx = MaxInc
  /\ Cardinality(out.reads) = MaxVecN
  /\ out.val /= zero

\* C23: two kernels side by side.

\* a load from the heap cell p, and a store to it
Ld(mem, p) == IF p \in DOMAIN mem THEN mem[p] ELSE heap

St(mem, p, v) == IF p \in DOMAIN mem THEN [mem EXCEPT ![p] = v] ELSE mem

\* a kernel that has been entered: its arguments (xb, yb, ab are the
\* addresses of its buffers), its position pc, its locals, and the value
\* it returns (rootof: the value is the square root of this)
Thread(k, arg, pc) ==
  [k |-> k, arg |-> arg, pc |-> pc, i |-> 0, j |-> 0, ra |-> zero,
   rb |-> zero, acc |-> zero, rootof |-> zero]

\* src/src/cpp/daxpy.cpp, src/src/cpp/dnrm2.cpp, src/src/cpp/dgemv.cpp: the
\* quick returns, up to the first load
Enter(k, arg) ==
  IF k = "daxpy"
  THEN Thread(k, arg, IF arg.n <= 0 \/ arg.alpha = zero THEN "done"
                      ELSE "ldy")
  ELSE IF k = "dnrm2"
  THEN Thread(k, arg, IF arg.n <= 0 THEN "done" ELSE "ldx")
  ELSE Thread(k, arg, IF arg.m = 0 \/ arg.n = 0
                         \/ (arg.alpha = zero /\ arg.beta = one)
                      THEN "done" ELSE "lda")

\* src/src/cpp/daxpy.cpp: y[iy] = y[iy] + alpha * x[ix], one load or store
\* at a time; the unit-stride loops touch the same elements in the same
\* order
DaxpyStep(t, mem) ==
  LET a == t.arg
      ix == AxpyStart(a.n, a.incx) + t.i * a.incx
      iy == AxpyStart(a.n, a.incy) + t.i * a.incy
  IN  IF t.pc = "ldy"
      THEN [t |-> [t EXCEPT !.ra = Ld(mem, a.yb + iy), !.pc = "ldx"],
            mem |-> mem]
      ELSE IF t.pc = "ldx"
      THEN [t |-> [t EXCEPT !.rb = Ld(mem, a.xb + ix), !.pc = "sty"],
            mem |-> mem]
      ELSE [t |-> [t EXCEPT !.i = t.i + 1,
                            !.pc = IF t.i + 1 < a.n THEN "ldy" ELSE "done"],
            mem |-> St(mem, a.yb + iy, Plus(t.ra, Times(a.alpha, t.rb)))]

\* src/src/cpp/dnrm2.cpp: one pass through the loop; every double drawn is
\* zero or lies between tsml and tbig, so that a zero is added to asml and
\* anything else is squared into amed, and the value returned is
\* sqrt(amed)
Nrm2Step(t, mem) ==
  LET a == t.arg
      ix == AxpyStart(a.n, a.incx) + t.i * a.incx
      ax == AbsR(Ld(mem, a.xb + ix))
      amed == IF ax = zero THEN t.acc ELSE Plus(t.acc, Times(ax, ax))
  IN  [t |-> [t EXCEPT !.acc = amed, !.i = t.i + 1,
                       !.rootof = IF t.i + 1 < a.n THEN zero ELSE amed,
                       !.pc = IF t.i + 1 < a.n THEN "ldx" ELSE "done"],
       mem |-> mem]

\* src/src/cpp/dgemv.cpp, Form y := alpha*A^T*x + beta*y: the four loops
\* differ in how they index x and y only
GemvTStep(t, mem) ==
  LET a == t.arg
      kx == IF a.incx < 0 THEN (-a.n + 1) * a.incx ELSE 0
      ky == IF a.incy < 0 THEN (-a.m + 1) * a.incy ELSE 0
      ix == IF a.incx = 1 THEN t.i ELSE kx + t.i * a.incx
      jy == IF a.incy = 1 THEN t.j ELSE ky + t.j * a.incy
  IN  IF t.pc = "lda"
      THEN [t |-> [t EXCEPT !.ra = Ld(mem, a.ab + t.i + t.j * a.lda),
                            !.pc = "ldx"],
            mem |-> mem]
      ELSE IF t.pc = "ldx"
      THEN [t |-> [t EXCEPT
                     !.acc = Plus(t.acc, Times(t.ra, Ld(mem, a.xb + ix))),
                     !.i = t.i + 1,
                     !.pc = IF t.i + 1 < a.m THEN "lda" ELSE "ldy"],
            mem |-> mem]
      ELSE IF t.pc = "ldy"
      THEN [t |-> [t EXCEPT !.rb = Ld(mem, a.yb + jy), !.pc = "sty"],
            mem |-> mem]
      ELSE [t |-> [t EXCEPT !.i = 0, !.j = t.j + 1, !.acc = zero,
                            !.pc = IF t.j + 1 < a.n THEN "lda" ELSE "done"],
            mem |-> St(mem, a.yb + jy,
                       Plus(Times(a.alpha, t.acc), Times(a.beta, t.rb)))]

\* the next load or store of a kernel
KernelStep(t, mem) ==
  IF t.k = "daxpy" THEN DaxpyStep(t, mem)
  ELSE IF t.k = "dnrm2" THEN Nrm2Step(t, mem)
  ELSE GemvTStep(t, mem)

\* a kernel run from where it stands to its return
RECURSIVE RunKernel(_, _)
RunKernel(t, mem) ==
  IF t.pc = "done" THEN [t |-> t, mem |-> mem]
  ELSE LET r == KernelStep(t, mem) IN RunKernel(r.t, r.mem)

\* the calls drawn: the dimensions and increments of one kernel call
PairN == 2

PairCalls ==
  {[k |-> "daxpy", m |-> 0, n |-> n, incx |-> incx, incy |-> incy,
    alpha |-> R(2), beta |-> zero] :
      n \in 1..PairN, incx \in {1, -1}, incy \in {1, -2}}
  \cup
  {[k |-> "dnrm2", m |-> 0, n |-> n, incx |-> incx, incy |-> 1,
    alpha |-> zero, beta |-> zero] : n \in 1..PairN, incx \in {1, 2}}
  \cup
  {[k |-> "dgemv", m |-> m, n |-> n, incx |-> 1, incy |-> incy,
    alpha |-> one, beta |-> R(2)] :
      m \in 1..PairN, n \in 1..PairN, incy \in {1, -2}}

\* the lengths of the buffers of a call, as the wrappers require them:
\* for the transposed dgemv x has m elements and y has n
SizeA(c) == IF c.k = "dgemv" THEN c.m * c.n ELSE 0

SizeX(c) == VecLen(IF c.k = "dgemv" THEN c.m ELSE c.n, c.incx)

SizeY(c) == IF c.k = "dnrm2" THEN 0 ELSE VecLen(c.n, c.incy)

\* the heap cells one call's buffers take, header cells included; a, x and
\* y are allocated in this order, or y before x
Extent(c) ==
  (IF SizeA(c) > 0 THEN SizeA(c) + 1 ELSE 0) + SizeX(c) + 1
  + (IF SizeY(c) > 0 THEN SizeY(c) + 1 ELSE 0)

\* the arguments of call c with its buffers allocated from address base
ArgsAt(c, base, yfirst) ==
  LET ab == base
      b1 == base + (IF SizeA(c) > 0 THEN SizeA(c) + 1 ELSE 0)
      xb == IF yfirst /\ SizeY(c) > 0 THEN b1 + SizeY(c) + 1 ELSE b1
      yb == IF yfirst \/ SizeY(c) = 0 THEN b1 ELSE b1 + SizeX(c) + 1
  IN  [m |-> c.m, n |-> c.n, alpha |-> c.alpha, beta |-> c.beta,
       ab |-> ab, lda |-> c.m, xb |-> xb, incx |-> c.incx,
       yb |-> yb, incy |-> c.incy]

\* the cells of the buffers of a call
Cells(c, a) ==
  {a.ab + p : p \in 0..(SizeA(c) - 1)}
  \cup {a.xb + p : p \in 0..(SizeX(c) - 1)}
  \cup {a.yb + p : p \in 0..(SizeY(c) - 1)}

\* two kernel calls are started on buffers allocated one after the other
\* in a heap of generated data: no cell belongs to two buffers
StartPair ==
  /\ call = "idle"
  /\ \E ca \in PairCalls, cb \in PairCalls, seed \in Seeds,
        yfirst \in BOOLEAN :
       LET aa == ArgsAt(ca, 0, FALSE)
           ab == ArgsAt(cb, Extent(ca), yfirst)
           mem == GenBuf(seed, 2, Extent(ca) + Extent(cb))
       IN  /\ SizeY(cb) > 0 \/ ~yfirst
           /\ call' = "pair"
           /\ inp' = [ca |-> ca, cb |-> cb, mem |-> mem,
                      ta |-> Enter(ca.k, aa), tb |-> Enter(cb.k, ab),
                      cellsa |-> Cells(ca, aa), cellsb |-> Cells(cb, ab)]
           /\ out' = [mem |-> mem, ta |-> Enter(ca.k, aa),
                      tb |-> Enter(cb.k, ab)]
  /\ UNCHANGED heap

\* the first kernel performs its next load or store
StepFirst ==
  /\ call = "pair"
  /\ out.ta.pc /= "done"
  /\ LET r == KernelStep(out.ta, out.mem)
     IN  out' = [out EXCEPT !.ta = r.t, !.mem = r.mem]
  /\ UNCHANGED <<call, inp, heap>>

\* the second kernel performs its next load or store
StepSecond ==
  /\ call = "pair"
  /\ out.tb.pc /= "done"
  /\ LET r == KernelStep(out.tb, out.mem)
     IN  out' = [out EXCEPT !.tb = r.t, !.mem = r.mem]
  /\ UNCHANGED <<call, inp, heap>>

\* both kernels have returned
PairDone == call = "pair" /\ out.ta.pc = "done" /\ out.tb.pc = "done"

ReturnPair ==
  /\ PairDone
  /\ call' = "idle"
  /\ inp' = <<>>
  /\ out' = <<>>
  /\ UNCHANGED heap

NextPair == StartPair \/ StepFirst \/ StepSecond \/ ReturnPair

SpecPair == Init /\ [][NextPair]_vars

\* the heap and the values returned when the first call runs to its
\* return and then the second, and the other way round
OneAfterTheOther(first, second, mem) ==
  LET r1 == RunKernel(first, mem)
      r2 == RunKernel(second, r1.mem)
  IN  [mem |-> r2.mem, first |-> r1.t.rootof, second |-> r2.t.rootof]

Interleaved == [mem |-> out.mem, first |-> out.ta.rootof,
                second |-> out.tb.rootof]

\* C23: for any two kernel calls on pairwise disjoint buffers, every
\* interleaving of their loads and stores ends with the buffer contents
\* and return values that running the two calls one after the other, in
\* one order or the other, ends with.
C23_InterleavingIsSequential ==
  PairDone =>
    \/ Interleaved = OneAfterTheOther(inp.ta, inp.tb, inp.mem)
    \/ LET s == OneAfterTheOther(inp.tb, inp.ta, inp.mem)
       IN  Interleaved = [mem |-> s.mem, first |-> s.second,
                          second |-> s.first]

\* a call that stays inside its buffers: every call drawn but the
\* transposed dgemv with a negative incy and m /= n
StaysInside(c) == ~(c.k = "dgemv" /\ c.incy < 0 /\ c.m /= c.n)

\* between calls that stay inside their buffers every interleaving ends as
\* the two calls one after the other do
InterleavingIsSequentialInside ==
  (PairDone /\ StaysInside(inp.ca) /\ StaysInside(inp.cb)) =>
    Interleaved = OneAfterTheOther(inp.ta, inp.tb, inp.mem)

\* a reachable state: two kernels that write have both returned after
\* their steps were interleaved
PairInterleaved ==
  /\ PairDone
  /\ inp.ca.k = "dgemv"
  /\ inp.cb.k = "daxpy"
  /\ inp.ca.n = PairN
  /\ inp.cb.n = PairN
  /\ StaysInside(inp.ca)
  /\ out.mem /= inp.mem
  /\ \E p \in inp.cellsa : out.mem[p] /= inp.mem[p]
  /\ \E p \in inp.cellsb : out.mem[p] /= inp.mem[p]
  /\ inp.cellsa \cap inp.cellsb = {}

\* the len cells from address base, as a buffer
Sub(mem, base, len) == [p \in 0..(len - 1) |-> mem[base + p]]

\* the kernel t run alone from load to load and store to store leaves in y
\* what the kernel as a whole computes
StepsAgree(c, t, mem) ==
  LET a == t.arg
      x == Sub(mem, a.xb, SizeX(c))
      y == Sub(mem, a.yb, SizeY(c))
      r == RunKernel(t, mem)
  IN  IF c.k = "daxpy"
      THEN Sub(r.mem, a.yb, SizeY(c))
             = daxpy(a.n, a.alpha, x, a.incx, y, a.incy)
      ELSE IF c.k = "dgemv"
      THEN Sub(r.mem, a.yb, SizeY(c))
             = dgemv(CharT, a.m, a.n, a.alpha, Sub(mem, a.ab, SizeA(c)),
                     a.lda, x, a.incx, a.beta, y, a.incy)
      ELSE r.mem = mem

\* the steps of the calls that stay inside their buffers agree with the
\* kernels
StepsAgreeWithKernels ==
  (call = "pair") =>
    /\ StaysInside(inp.ca) => StepsAgree(inp.ca, inp.ta, inp.mem)
    /\ StaysInside(inp.cb) => StepsAgree(inp.cb, inp.tb, inp.mem)

\* C24, C25: the module handle.

\* the messages of the errors the wrappers throw
NotInitialized == "WASM module not initialized. Call initWasm() first."

NNegative == "n must be positive"

XTooSmall == "x array too small"

YTooSmall == "y array too small"

GetModuleThrows_never(moduleInstance) == FALSE

\* src/src/wasm-module.ts (getModule): if (!moduleInstance) throw; 0 is null
GetModuleThrows(moduleInstance) == moduleInstance = 0

\* what a wrapper call did: the message of the error it threw ("" when it
\* returned), the buffers it allocated and freed, whether it entered the
\* kernel, and the caller's arrays when it ended
Threw(msg, x, y) ==
  [threw |-> msg, mallocs |-> 0, frees |-> 0, kernel |-> FALSE,
   x |-> x, y |-> y]

TooSmall_signed(buf, n, inc) == BufLen(buf) < 1 + (n - 1) * inc

\* src/src/daxpy.ts: x.length < 1 + (n - 1) * Math.abs(incx)
TooSmall(buf, n, inc) == BufLen(buf) < 1 + (n - 1) * Abs(inc)

\* src/src/daxpy.ts (daxpy)
DaxpyTs(moduleInstance, n, alpha, x, incx, y, incy) ==
  IF GetModuleThrows(moduleInstance) THEN Threw(NotInitialized, x, y)
  ELSE IF n < 0 THEN Threw(NNegative, x, y)
  ELSE IF n = 0 THEN Threw("", x, y)
  ELSE IF alpha = zero THEN Threw("", x, y)
  ELSE IF TooSmall(x, n, incx) THEN Threw(XTooSmall, x, y)
  ELSE IF TooSmall(y, n, incy) THEN Threw(YTooSmall, x, y)
  ELSE [threw |-> "", mallocs |-> 2, frees |-> 2, kernel |-> TRUE,
        x |-> x, y |-> daxpy(n, alpha, x, incx, y, incy)]

\* the number of initWasm() calls made on a page
MaxInits == 3

\* the page before anything was called: moduleInstance is null, no module
\* was instantiated, no initWasm() call was made
FreshPage ==
  [moduleInstance |-> 0, made |-> 0, calls |-> <<>>,
   last |-> Threw("", <<>>, <<>>), resolved |-> FALSE]

Page == IF call = "page" THEN out ELSE FreshPage

\* an initWasm() call has resolved
SomeResolved(page) ==
  \E c \in DOMAIN page.calls : page.calls[c].pc = "resolved"

\* src/src/wasm-module.ts (initWasm), up to the first await: the handle is
\* returned if it is set, the import of the module factory is awaited
\* otherwise
InitWasm ==
  /\ call \in {"idle", "page"}
  /\ Len(Page.calls) < MaxInits
  /\ call' = "page"
  /\ out' = [Page EXCEPT !.calls =
               Append(@, IF Page.moduleInstance /= 0
                         THEN [pc |-> "resolved",
                               module |-> Page.moduleInstance]
                         ELSE [pc |-> "import", module |-> 0])]
  /\ UNCHANGED <<inp, heap>>

\* the import has resolved: createBlasModule is called and awaited
ImportResolves ==
  /\ call = "page"
  /\ \E c \in DOMAIN out.calls :
       /\ out.calls[c].pc = "import"
       /\ out' = [out EXCEPT !.calls[c].pc = "create"]
  /\ UNCHANGED <<call, inp, heap>>

\* createBlasModule has resolved to a new module instance: it is stored in
\* moduleInstance and returned
CreateResolves ==
  /\ call = "page"
  /\ \E c \in DOMAIN out.calls :
       /\ out.calls[c].pc = "create"
       /\ out' = [out EXCEPT !.made = @ + 1,
                             !.moduleInstance = out.made + 1,
                             !.calls[c] = [pc |-> "resolved",
                                           module |-> out.made + 1]]
  /\ UNCHANGED <<call, inp, heap>>

\* the import or createBlasModule has failed, or the module is null: the
\* call rejects with 'Failed to load WASM module'
InitFails ==
  /\ call = "page"
  /\ \E c \in DOMAIN out.calls :
       /\ out.calls[c].pc \in {"import", "create"}
       /\ out' = [out EXCEPT !.calls[c].pc = "rejected"]
  /\ UNCHANGED <<call, inp, heap>>

\* a BLAS wrapper, daxpy, is called
CallDaxpyTs ==
  /\ call \in {"idle", "page"}
  /\ \E n \in {-1, 0, MaxN}, incy \in {1, -MaxInc}, seed \in Seeds,
        short \in BOOLEAN :
       LET x == GenBuf(seed, 3, VecLen(n, 1))
           y == GenBuf(seed, 5, IF short THEN 1 ELSE VecLen(n, incy))
       IN  /\ inp' = [n |-> n, alpha |-> R(2), x |-> x, incx |-> 1,
                      y |-> y, incy |-> incy]
           /\ out' = [Page EXCEPT
                        !.last = DaxpyTs(Page.moduleInstance, n, R(2), x, 1,
                                         y, incy),
                        !.resolved = SomeResolved(Page)]
  /\ call' = "page"
  /\ UNCHANGED heap

\* the page is left
ClosePage ==
  /\ call = "page"
  /\ call' = "idle"
  /\ inp' = <<>>
  /\ out' = <<>>
  /\ UNCHANGED heap

NextPage ==
  \/ InitWasm
  \/ ImportResolves
  \/ CreateResolves
  \/ InitFails
  \/ CallDaxpyTs
  \/ ClosePage

SpecPage == Init /\ [][NextPage]_vars

\* C24: across any sequence of initWasm() calls, calls started while an
\* earlier one is still awaiting the module included, the module is
\* instantiated at most once and every call resolves to that one instance.
C24_InstantiatedOnce ==
  call = "page" =>
    /\ out.made <= 1
    /\ \A c, d \in DOMAIN out.calls :
         (out.calls[c].pc = "resolved" /\ out.calls[d].pc = "resolved") =>
           out.calls[c].module = out.calls[d].module

\* initWasm() calls that start after an earlier one has resolved get the
\* instance moduleInstance holds, and no new one is made
InitAfterResolvedReuses ==
  [][(call = "page" /\ call' = "page" /\ out.moduleInstance /= 0
        /\ Len(out'.calls) > Len(out.calls)) =>
       /\ out'.made = out.made
       /\ out'.calls[Len(out'.calls)] =
            [pc |-> "resolved", module |-> out.moduleInstance]]_vars

\* a reachable state: two calls have resolved to two instances
TwoInstances ==
  /\ call = "page"
  /\ out.made = 2
  /\ \E c, d \in DOMAIN out.calls :
       /\ out.calls[c].pc = "resolved"
       /\ out.calls[d].pc = "resolved"
       /\ out.calls[c].module /= out.calls[d].module

\* a wrapper was called since the page was opened
WrapperCalled == call = "page" /\ inp /= <<>>

\* C25: a BLAS wrapper invoked before some initWasm() call has completed
\* successfully throws 'WASM module not initialized. Call initWasm()
\* first.' without allocating WASM memory or changing its argument arrays;
\* once an initWasm() call has resolved, that error is never thrown again.
C25_NotInitializedUntilResolved ==
  WrapperCalled =>
    IF out.resolved
    THEN out.last.threw /= NotInitialized
    ELSE /\ out.last.threw = NotInitialized
         /\ out.last.mallocs = 0
         /\ ~out.last.kernel
         /\ out.last.x = inp.x
         /\ out.last.y = inp.y

\* a reachable state: a wrapper call that would have updated y has thrown
\* while an initWasm() call was still awaiting the module
C25_Witness ==
  /\ WrapperCalled
  /\ ~out.resolved
  /\ inp.n = MaxN
  /\ BufLen(inp.y) = VecLen(MaxN, inp.incy)
  /\ \E c \in DOMAIN out.calls : out.calls[c].pc = "create"
  /\ out.last.threw = NotInitialized
  /\ out.last.y = inp.y

\* a reachable state: after initWasm() has resolved the wrapper runs the
\* kernel
WrapperRunsKernel ==
  /\ WrapperCalled
  /\ out.resolved
  /\ out.last.kernel
  /\ out.last.y /= inp.y

\* C26: the wrappers' checks.

\* the checks daxpby, dcopy and drot share, in the order of the source: ""
\* when the call goes on to allocate
VecChecks(moduleInstance, n, x, incx, y, incy) ==
  IF GetModuleThrows(moduleInstance) THEN NotInitialized
  ELSE IF n < 0 THEN NNegative
  ELSE IF n = 0 THEN "return"
  ELSE IF TooSmall(x, n, incx) THEN XTooSmall
  ELSE IF TooSmall(y, n, incy) THEN YTooSmall
  ELSE ""

\* a wrapper that has ended in its checks
Checked(msg, x, y) == Threw(IF msg = "return" THEN "" ELSE msg, x, y)

\* src/src/daxpby.ts (daxpby)
DaxpbyTs(moduleInstance, n, alpha, x, incx, beta, y, incy) ==
  LET msg == VecChecks(moduleInstance, n, x, incx, y, incy) IN
  IF msg /= "" THEN Checked(msg, x, y)
  ELSE [threw |-> "", mallocs |-> 2, frees |-> 2, kernel |-> TRUE,
        x |-> x, y |-> daxpby(n, alpha, x, incx, beta, y, incy)]

\* src/unnamed/part_015 (dcopy)
DcopyTs(moduleInstance, n, x, incx, y, incy) ==
  LET msg == VecChecks(moduleInstance, n, x, incx, y, incy) IN
  IF msg /= "" THEN Checked(msg, x, y)
  ELSE [threw |-> "", mallocs |-> 2, frees |-> 2, kernel |-> TRUE,
        x |-> x, y |-> dcopy(n, x, incx, y, incy)]

\* src/src/drot.ts (drot)
DrotTs(moduleInstance, n, x, incx, y, incy, c, s) ==
  LET msg == VecChecks(moduleInstance, n, x, incx, y, incy) IN
  IF msg /= "" THEN Checked(msg, x, y)
  ELSE LET r == drot(n, x, incx, y, incy, c, s)
       IN  [threw |-> "", mallocs |-> 2, frees |-> 2, kernel |-> TRUE,
            x |-> r.x, y |-> r.y]

\* the length of an array for n elements with increment inc, or one less
ArrLen(n, inc, short) ==
  LET need == IF n > 0 THEN VecLen(n, inc) ELSE 1
  IN  IF short THEN need - 1 ELSE need

\* the calls drawn: n, the increments, and which arrays are too short
TsDraws ==
  [n : (-1)..MaxN, incx : Incs, incy : Incs, seed : Seeds,
   xshort : BOOLEAN, yshort : BOOLEAN]

TsX(d) == GenBuf(d.seed, 3, ArrLen(d.n, d.incx, d.xshort))

TsY(d) == GenBuf(d.seed, 5, ArrLen(d.n, d.incy, d.yshort))

\* the record of a wrapper call made after initWasm() has resolved
TsCall(name, d, alpha, res) ==
  /\ call' = name
  /\ inp' = [n |-> d.n, alpha |-> alpha, x |-> TsX(d), incx |-> d.incx,
             y |-> TsY(d), incy |-> d.incy, xshort |-> d.xshort,
             yshort |-> d.yshort]
  /\ out' = res
  /\ UNCHANGED heap

Ts_daxpy ==
  /\ call = "idle"
  /\ \E d \in TsDraws, alpha \in {zero, R(2)} :
       TsCall("ts_daxpy", d, alpha,
              DaxpyTs(1, d.n, alpha, TsX(d), d.incx, TsY(d), d.incy))

Ts_daxpby ==
  /\ call = "idle"
  /\ \E d \in TsDraws :
       TsCall("ts_daxpby", d, zero,
              DaxpbyTs(1, d.n, zero, TsX(d), d.incx, R(2), TsY(d), d.incy))

Ts_dcopy ==
  /\ call = "idle"
  /\ \E d \in TsDraws :
       TsCall("ts_dcopy", d, one,
              DcopyTs(1, d.n, TsX(d), d.incx, TsY(d), d.incy))

Ts_drot ==
  /\ call = "idle"
  /\ \E d \in TsDraws :
       TsCall("ts_drot", d, one,
              DrotTs(1, d.n, TsX(d), d.incx, TsY(d), d.incy, zero, one))

NextChecks == Ts_daxpy \/ Ts_daxpby \/ Ts_dcopy \/ Ts_drot \/ Return

SpecChecks == Init /\ [][NextChecks]_vars

TsNames == {"ts_daxpy", "ts_daxpby", "ts_dcopy", "ts_drot"}

\* n < 0, or n > 0 and an array shorter than 1 + (n-1)*|inc|
BadCall ==
  /\ call \in TsNames
  /\ inp.n < 0 \/ (inp.n > 0 /\ (inp.xshort \/ inp.yshort))

\* nothing was allocated, the kernel was not invoked, the arrays are as
\* they were
NothingDone ==
  /\ out.mallocs = 0
  /\ ~out.kernel
  /\ out.x = inp.x
  /\ out.y = inp.y

\* C26: for daxpy, daxpby, dcopy and drot a call with n < 0, or
\* with n > 0 and an x or y array shorter than 1 + (n-1)*|inc|, throws
\* before any WASM memory is allocated and before the kernel is invoked,
\* and leaves the caller's arrays unchanged.
C26_BadCallThrowsFirst ==
  BadCall => (out.threw /= "" /\ NothingDone)

\* daxpy with alpha = 0 and n > 0
AxpyNothingToAdd == call = "ts_daxpy" /\ inp.n > 0 /\ inp.alpha = zero

\* what the wrappers do: the same, except that daxpy with n > 0 and
\* alpha = 0 returns without looking at the lengths of its arrays; it too
\* allocates nothing, does not invoke the kernel and leaves the arrays
\* unchanged
BadCallThrowsFirstUnlessAlphaZero ==
  BadCall =>
    /\ NothingDone
    /\ IF AxpyNothingToAdd THEN out.threw = "" ELSE out.threw /= ""

\* a reachable state: drot on MaxN elements with a negative incx and a y
\* one element short
BadCallThrows ==
  /\ call = "ts_drot"
  /\ inp.n = MaxN
  /\ inp.incx < 0
  /\ ~inp.xshort
  /\ inp.yshort
  /\ out.threw = YTooSmall
  /\ NothingDone

\* a reachable state: a call that passes the checks allocates and runs the
\* kernel
TsRunsKernel ==
  /\ call = "ts_dcopy"
  /\ inp.n = MaxN
  /\ inp.incy < 0
  /\ out.kernel
  /\ out.mallocs = 2
  /\ out.y /= inp.y

---------------------------------------------------------------------------
(* The rows of the band array the band routines reference.                 *)

\* dtbmv, dtbsv, dsbmv: the rows of column j referenced by a[(l + i) + j*lda]
\* over the inner loop and by the diagonal reference; uplo = 0 has
\* l = kplus1 - 1 - j and i from max(0, j-k) to j-1 with the diagonal in row
\* kplus1 - 1, the other has l = 1 - j and i from j+1 to min(n-1, j+k) with
\* the diagonal in row 0
TbRows(uplo, n, k, j) ==
  LET kplus1 == k + 1
  IN  IF uplo = 0
      THEN LET l == kplus1 - 1 - j
               i_start == Max(0, j - k)
           IN  {l + i : i \in i_start..(j - 1)} \cup {kplus1 - 1}
      ELSE LET l == 1 - j
               i_end == Min(n - 1, j + k)
           IN  {l + i : i \in (j + 1)..i_end} \cup {0}

\* dgbmv: the rows of column j referenced by a[(k + i) + j*lda] with
\* k = kup1 - 1 - j and i from max(0, j-ku) to min(m-1, j+kl)
GbRows(m, kl, ku, j) ==
  LET kup1 == ku + 1
      k == kup1 - 1 - j
      i_start == Max(0, j - ku)
      i_end == Min(m - 1, j + kl)
  IN  {k + i : i \in i_start..i_end}

BandNames == {"dtbmv", "dtbsv", "dsbmv", "dgbmv"}

\* the band array with every element outside the given rows made non-finite
Masked(a, lda, n, rows(_)) ==
  [p \in DOMAIN a |->
     IF p \div lda < n /\ (p % lda) \in rows(p \div lda)
     THEN a[p] ELSE NaN]

\* one band routine on a band array with lda rows per column
BandKernel(name, upper, notrans, m, n, kl, ku, a, lda, x, y) ==
  CASE name = "dtbmv" ->
         dtbmv(UploInt(upper), TransInt(notrans), 0, n, ku, a, lda, x, 1)
    [] name = "dtbsv" ->
         dtbsv(UploInt(upper), TransInt(notrans), 0, n, ku, a, lda, x, 1)
    [] name = "dsbmv" ->
         dsbmv(UploInt(upper), n, ku, one, a, lda, x, 1, one, y, 1)
    [] name = "dgbmv" ->
         dgbmv(TransInt(notrans), m, n, kl, ku, one, a, lda, x, 1, one, y, 1)

\* a band routine is called on a matrix with n columns; the triangular and
\* symmetric ones have k = ku diagonals beside the main one and m = n
CallBand ==
  /\ call = "idle"
  /\ \E name \in BandNames, upper \in BOOLEAN, notrans \in BOOLEAN,
        m \in 1..MaxN, n \in 1..MaxN, kl \in 0..MaxK, ku \in 0..MaxK,
        seed \in Seeds :
       LET general == (name = "dgbmv")
           lda == (IF general THEN kl + ku + 1 ELSE ku + 1) + (seed % 2)
           a == IF general THEN GenBuf(seed, 0, lda * n)
                ELSE BandTri(seed, upper, n, ku, lda)
           lenx == IF general /\ ~notrans THEN m ELSE n
           leny == IF general /\ notrans THEN m ELSE n
           x == GenBuf(seed, 3, lenx)
           y == GenBuf(seed, 5, leny)
           Rows(j) == IF general THEN GbRows(m, kl, ku, j)
                      ELSE TbRows(UploInt(upper), n, ku, j)
       IN  /\ general \/ (m = n /\ kl = ku)
           /\ call' = "band"
           /\ inp' = [name |-> name, upper |-> upper, notrans |-> notrans,
                      m |-> m, n |-> n, kl |-> kl, ku |-> ku, lda |-> lda,
                      a |-> a, x |-> x, y |-> y]
           /\ out' = [rows |-> [j \in 0..(n - 1) |-> Rows(j)],
                      res |-> BandKernel(name, upper, notrans, m, n, kl, ku,
                                         a, lda, x, y),
                      masked |-> BandKernel(name, upper, notrans, m, n, kl,
                                            ku, Masked(a, lda, n, Rows),
                                            lda, x, y)]
  /\ UNCHANGED heap

NextBandRows == CallBand \/ Return

SpecBandRows == Init /\ [][NextBandRows]_vars

\* the last row of the stored band
BandLast == IF inp.name = "dgbmv" THEN inp.kl + inp.ku ELSE inp.ku

\* C27: every band-array element dtbmv, dtbsv, dsbmv or dgbmv references in
\* column j has a row index between 0 and k (between 0 and kl+ku for dgbmv),
\* for both uplo values
C27_BandRowsInsideBand ==
  call = "band" =>
    \A j \in 0..(inp.n - 1) : \A r \in out.rows[j] : 0 <= r /\ r <= BandLast

\* the routines that keep to the band: the upper-triangle branches and dgbmv
BandRowsInsideBandUpper ==
  (call = "band" /\ (inp.upper \/ inp.name = "dgbmv")) =>
    \A j \in 0..(inp.n - 1) : \A r \in out.rows[j] : 0 <= r /\ r <= BandLast

\* a lower-triangle call references a row past the band
BandRowPastBand ==
  /\ call = "band"
  /\ ~inp.upper
  /\ \E j \in 0..(inp.n - 1) : inp.ku + 1 \in out.rows[j]

\* the kernels reference nothing of the first n columns outside the rows
\* above: the result does not depend on any other element
BandRowsAreAllReferenced ==
  (call = "band" /\ (inp.upper \/ inp.name = "dgbmv"))
    => out.masked = out.res

---------------------------------------------------------------------------
(* The elements of x and y the dgemv kernel references.                    *)

\* the indexes into x: x[jx] over the n columns when not transposed (x[j]
\* for incx = 1, where kx = 0), x[ix] over the m rows when transposed
GemvXIdx(notran, m, n, incx) ==
  IF notran THEN {GemvKx(n, incx) + j * incx : j \in 0..(n - 1)}
  ELSE {GemvKx(n, incx) + i * incx : i \in 0..(m - 1)}

\* the indexes into y: y[iy] over the m rows when not transposed, y[jy] over
\* the n columns when transposed, both started at ky
GemvYIdx(notran, m, n, incy) ==
  IF notran THEN {GemvKy(m, incy) + i * incy : i \in 0..(m - 1)}
  ELSE {GemvKy(m, incy) + j * incy : j \in 0..(n - 1)}

\* a vector with every element outside the given indexes made non-finite
Besides(v, idx) == [p \in DOMAIN v |-> IF p \in idx THEN v[p] ELSE NaN]

\* dgemv.ts accepts x and y of the minimum lengths and passes them on
CallDgemvIdx ==
  /\ call = "idle"
  /\ \E trans \in TransChars, m \in 1..MaxN, n \in 1..MaxN,
        incx \in Incs, incy \in Incs, seed \in Seeds :
       LET notran == (trans = CharN)
           g == GemvArgs(notran, trans, m, n, one, R(2), incx, incy, seed)
           xs == GemvXIdx(notran, m, n, incx)
           ys == GemvYIdx(notran, m, n, incy)
       IN  /\ call' = "dgemv_idx"
           /\ inp' = g
           /\ out' = [xs |-> xs, ys |-> ys,
                      y |-> dgemv(trans, m, n, one, g.a, g.lda, g.x, incx,
                                  R(2), g.y, incy),
                      besides |-> dgemv(trans, m, n, one, g.a, g.lda,
                                        Besides(g.x, xs), incx, R(2),
                                        Besides(g.y, ys), incy)]
  /\ UNCHANGED heap

NextGemvIdx == CallDgemvIdx \/ Return

SpecGemvIdx == Init /\ [][NextGemvIdx]_vars

\* the indexes of a vector of len elements with increment inc
Within(len, inc) == 0..((len - 1) * Abs(inc))

\* C28: for every trans, all m, n >= 1 and all nonzero increments, every
\* index dgemv uses into x lies in [0, (lenx-1)*|incx|] and every index into
\* y in [0, (leny-1)*|incy|], lenx and leny being the lengths of the
\* wrapper: n and m when not transposed, m and n when transposed
C28_GemvIndexesWithinVectors ==
  call = "dgemv_idx" =>
    /\ out.xs \subseteq Within(inp.lenx, inp.incx)
    /\ out.ys \subseteq Within(inp.leny, inp.incy)

\* the calls whose start offsets are those of their vectors: not transposed,
\* or square, or the vector's increment positive
GemvIndexesWithinUntransposed ==
  call = "dgemv_idx" =>
    /\ (inp.notran \/ inp.m = inp.n \/ inp.incx > 0)
         => out.xs \subseteq Within(inp.lenx, inp.incx)
    /\ (inp.notran \/ inp.m = inp.n \/ inp.incy > 0)
         => out.ys \subseteq Within(inp.leny, inp.incy)

\* a transposed call with an index before the first element of its vector
GemvIndexOutside ==
  /\ call = "dgemv_idx"
  /\ ~inp.notran
  /\ \E p \in out.xs \cup out.ys : p < 0

\* the kernel references nothing of x or y beside these indexes: the
\* elements of y at them do not depend on any other element, and no other
\* element of y is stored to
GemvIndexesAreAllReferenced ==
  call = "dgemv_idx" =>
    \A p \in DOMAIN inp.y :
      IF p \in out.ys THEN out.besides[p] = out.y[p]
      ELSE out.y[p] = inp.y[p]

---------------------------------------------------------------------------
(* The unrolled unit-stride loops of the vector kernels.                   *)

MaxUnrollN == 15

UnrolledNames == {"daxpy", "dscal", "dcopy", "dswap", "ddot"}

\* the number of statements in the body of each unrolled loop
UnrollWidth(name) ==
  CASE name = "dswap" -> 3
    [] name = "daxpy" -> 4
    [] name = "dscal" -> 5
    [] name = "ddot" -> 5
    [] name = "dcopy" -> 7

\* the indexes in the order the unit-stride path processes them: the
\* clean-up loop for (i = 0; i < m; i++), the return for n below the width,
\* then for (i = m; i < n; i += w) with its w statements on i, i+1, ..
UnrolledOrder(n, w) ==
  LET m == CleanUp(n, w)
      clean == [t \in 1..m |-> t - 1]
      trips == IF n > m THEN (n - m + w - 1) \div w ELSE 0
      unrolled == [t \in 1..(trips * w) |->
                     LET i == m + w * ((t - 1) \div w)
                     IN  i + ((t - 1) % w)]
  IN  IF n < w THEN clean ELSE clean \o unrolled

\* one vector kernel: the vectors and the value it leaves
Level1(name, n, alpha, x, incx, y, incy) ==
  CASE name = "daxpy" ->
         [x |-> x, y |-> daxpy(n, alpha, x, incx, y, incy), val |-> zero]
    [] name = "dscal" ->
         [x |-> dscal(n, alpha, x, incx), y |-> y, val |-> zero]
    [] name = "dcopy" ->
         [x |-> x, y |-> dcopy(n, x, incx, y, incy), val |-> zero]
    [] name = "dswap" ->
         LET s == dswap(n, x, incx, y, incy)
         IN  [x |-> s.x, y |-> s.y, val |-> zero]
    [] name = "ddot" ->
         [x |-> x, y |-> y, val |-> ddot(n, x, incx, y, incy)]

\* n elements followed by w cells that belong to someone else
Followed(seed, off, n, w, other) ==
  [p \in 0..(n + w - 1) |-> IF p < n THEN Gen(seed, p + off) ELSE other]

\* the same n elements stored with increment 2
Spread(v, n) ==
  [p \in 0..(VecLen(n, 2) - 1) |-> IF p % 2 = 0 THEN v[p \div 2] ELSE R(3)]

\* a vector kernel is called with both increments 1; beside it the same
\* call with the cells after the vectors non-finite, and the call on the
\* same vectors stored with increment 2, which takes the strided loop
CallUnrolled ==
  /\ call = "idle"
  /\ \E name \in UnrolledNames, n \in 1..MaxUnrollN, alpha \in Scalars,
        seed \in Seeds :
       LET w == UnrollWidth(name)
           x == Followed(seed, 3, n, w, R(7))
           y == Followed(seed, 5, n, w, R(9))
           xn == Followed(seed, 3, n, w, NaN)
           yn == Followed(seed, 5, n, w, NaN)
       IN  /\ call' = "unrolled"
           /\ inp' = [name |-> name, n |-> n, w |-> w, alpha |-> alpha,
                      x |-> x, y |-> y]
           /\ out' = [order |-> UnrolledOrder(n, w),
                      unit |-> Level1(name, n, alpha, x, 1, y, 1),
                      alone |-> Level1(name, n, alpha, xn, 1, yn, 1),
                      strided |-> Level1(name, n, alpha, Spread(x, n), 2,
                                         Spread(y, n), 2)]
  /\ UNCHANGED heap

NextUnrolled == CallUnrolled \/ Return

SpecUnrolled == Init /\ [][NextUnrolled]_vars

\* C29: for incx = incy = 1 and every n >= 1 the clean-up and unrolled loops
\* of daxpy, dscal, dcopy, dswap and ddot process each index 0..n-1 exactly
\* once and no index >= n, and give the result of the element-by-element
\* strided loop on the same logical vectors
C29_UnrolledIsStrided ==
  call = "unrolled" =>
    /\ out.order = [t \in 1..inp.n |-> t - 1]
    /\ \A p \in inp.n..(inp.n + inp.w - 1) :
         out.unit.x[p] = inp.x[p] /\ out.unit.y[p] = inp.y[p]
    /\ out.alone.val = out.unit.val
    /\ \A i \in 0..(inp.n - 1) :
         /\ out.alone.x[i] = out.unit.x[i]
         /\ out.alone.y[i] = out.unit.y[i]
         /\ out.unit.x[i] = out.strided.x[2 * i]
         /\ out.unit.y[i] = out.strided.y[2 * i]
    /\ out.unit.val = out.strided.val

\* a call that takes the clean-up loop and two trips of the unrolled loop,
\* and changes a vector or returns a value
C29_Witness ==
  /\ call = "unrolled"
  /\ inp.n % inp.w /= 0
  /\ inp.n >= 2 * inp.w
  /\ (out.unit.x /= inp.x \/ out.unit.y /= inp.y \/ out.unit.val /= zero)
  /\ C29_UnrolledIsStrided

---------------------------------------------------------------------------
(* The buffers the wrappers allocate on the module's heap.                 *)

\* the wrapper calls made on one module
MaxCalls == 3

WrapperNames == {"daxpy", "drotg", "dsymv", "dgemv"}

\* the pointers a wrapper takes from module._malloc before its try block,
\* in the order of the calls
WrapperMallocs(name) ==
  CASE name = "daxpy" -> <<"xPtr", "yPtr">>
    [] name = "drotg" -> <<"aPtr", "bPtr", "cPtr", "sPtr">>
    [] name = "dsymv" -> <<"aPtr", "xPtr", "yPtr">>
    [] name = "dgemv" -> <<"aPtr", "xPtr", "yPtr">>

\* only the first pointer is handed back
WrapperFrees_first(name) ==
  CASE name = "daxpy" -> <<"xPtr">>
    [] name = "drotg" -> <<"aPtr">>
    [] name = "dsymv" -> <<"aPtr">>
    [] name = "dgemv" -> <<"aPtr">>

\* the pointers a wrapper hands to module._free in its finally block
WrapperFrees(name) ==
  CASE name = "daxpy" -> <<"xPtr", "yPtr">>
    [] name = "drotg" -> <<"aPtr", "bPtr", "cPtr", "sPtr">>
    [] name = "dsymv" -> <<"aPtr", "xPtr", "yPtr">>
    [] name = "dgemv" -> <<"aPtr", "xPtr", "yPtr">>

\* the wrappers that throw or return before they allocate: daxpy for n < 0,
\* n = 0, alpha = 0 and short arrays, dsymv and dgemv for bad dimensions and
\* short arrays; drotg has no such exit
HasEarlyExit(name) == name /= "drotg"

\* the module's heap with no wrapper call made: no block allocated, none
\* freed that was not allocated
FreshHeap ==
  [live |-> {}, twice |-> FALSE, calls |-> 0,
   last |-> [name |-> "", got |-> <<>>, freed |-> <<>>, threw |-> FALSE]]

ModuleHeap == IF call = "heap" THEN out ELSE FreshHeap

\* malloc: the lowest address not allocated, or 0 when the heap is exhausted
Malloc(live, exhausted) ==
  IF exhausted THEN 0
  ELSE CHOOSE p \in 1..(Cardinality(live) + 1) :
         p \notin live /\ \A q \in 1..(p - 1) : q \in live

\* free: a null pointer is ignored; a pointer that is not allocated is an
\* error of the caller, recorded
Free(h, p) ==
  IF p = 0 THEN h
  ELSE IF p \in h.live THEN [h EXCEPT !.live = @ \ {p}]
  ELSE [h EXCEPT !.twice = TRUE]

\* one wrapper call from its first statement to its return or throw: the
\* exits before the allocations, the _malloc calls (the fail-th one returns
\* 0), the try block, which returns or throws (trap), and the finally block
\* with its _free calls
RunWrapper(h, name, early, trap, fail) ==
  IF early
  THEN [h EXCEPT !.calls = @ + 1,
                 !.last = [name |-> name, got |-> <<>>, freed |-> <<>>,
                           threw |-> trap]]
  ELSE
    LET names == WrapperMallocs(name)
        a == ForUp(1, Len(names), [live |-> h.live, got |-> <<>>],
               LAMBDA s, i :
                 LET p == Malloc(s.live, i = fail)
                 IN  [live |-> IF p = 0 THEN s.live ELSE s.live \cup {p},
                      got |-> Append(s.got, p)])
        Ptr(v) == a.got[CHOOSE i \in 1..Len(names) : names[i] = v]
        frees == WrapperFrees(name)
        f == ForUp(1, Len(frees), [h EXCEPT !.live = a.live],
               LAMBDA s, i : Free(s, Ptr(frees[i])))
    IN  [f EXCEPT !.calls = @ + 1,
                  !.last = [name |-> name, got |-> a.got,
                            freed |-> [i \in 1..Len(frees) |->
                                         Ptr(frees[i])],
                            threw |-> trap]]

\* a wrapper is called on the initialised module
CallAllocating ==
  /\ call \in {"idle", "heap"}
  /\ ModuleHeap.calls < MaxCalls
  /\ \E name \in WrapperNames, early \in BOOLEAN, trap \in BOOLEAN,
        fail \in 0..4 :
       /\ early => HasEarlyExit(name)
       /\ fail <= Len(WrapperMallocs(name))
       /\ early => fail = 0
       /\ inp' = [name |-> name, early |-> early, trap |-> trap,
                  fail |-> fail]
       /\ out' = RunWrapper(ModuleHeap, name, early, trap, fail)
  /\ call' = "heap"
  /\ UNCHANGED heap

\* the module is dropped
CloseHeap ==
  /\ call = "heap"
  /\ call' = "idle"
  /\ inp' = <<>>
  /\ out' = <<>>
  /\ UNCHANGED heap

NextHeap == CallAllocating \/ CloseHeap

SpecHeap == Init /\ [][NextHeap]_vars

\* C30: every wrapper call that allocates frees each of its buffers exactly
\* once before it returns or throws: after any sequence of calls nothing a
\* wrapper allocated is outstanding and nothing was freed twice
C30_WrappersFreeWhatTheyAllocate ==
  call = "heap" =>
    /\ out.live = {}
    /\ ~out.twice
    /\ \A i \in DOMAIN out.last.got :
         out.last.got[i] /= 0 =>
           Cardinality({j \in DOMAIN out.last.freed :
                          out.last.freed[j] = out.last.got[i]}) = 1

\* a second or later call that allocated all its buffers and threw from its
\* try block
C30_Witness ==
  /\ call = "heap"
  /\ out.calls >= 2
  /\ out.last.threw
  /\ Len(out.last.got) >= 2
  /\ \A i \in DOMAIN out.last.got : out.last.got[i] /= 0
  /\ out.live = {}

===========================================================================
